---- MODULE Spec2Model ----
(***************************************************************************)
(* Resumable document-summarization workflow of ninorvdc/zapiercodes:      *)
(* the page status control (fan-in tracker) of appscript/Utils.gs, the     *)
(* workflow state machine of appscript/NotionAPI.gs and the web-app entry  *)
(* point doPost with its result-callback handlers.                         *)
(***************************************************************************)
EXTENDS Integers, Sequences, FiniteSets, TLC

(* ------------------------------ bounds -------------------------------- *)
\* documents (Notion page ids) that requests can name
Pages == {"p1", "p2"}
\* largest number of external links (sub-blocks) found in a document
MaxSub == 1
\* largest number of chunks chunkContent cuts a document into
MaxChunks == 3
\* number of invocations (the clock that stamps file names) in one run
MaxClock == 4
\* number of task ids callZapierWebhook hands out in one run
MaxTasks == 2

(* --------------------------- value domains ---------------------------- *)
NoTask == 0
TaskIds == 1..MaxTasks
NoPage == ""
NoItem == <<>>
\* a text is a sequence of tokens; Rule stands for a blank line followed by a
\* '---' line, every other token for text without one
EmptyText == <<>>
Rule == "---"
\* result texts a callback can carry: empty, plain, and one with a rule inside
Results == {EmptyText, <<"r">>, <<"r", Rule, "s">>}
NoName == <<>>
Statuses == {"pending", "processing", "completed"}
ContentTypes == {"main_page", "sub_block"}

\* `${pageId}_main` and `${pageId}_sub_${k}`
MainId(pageId) == <<pageId, 0>>
SubId(pageId, k) == <<pageId, k>>
ItemIds == {<<p, k>> : p \in Pages, k \in 0..(MaxSub + 1)}

Range(s) == {s[i] : i \in 1..Len(s)}

(* ----------------------- DocumentStructure.index ---------------------- *)
DocumentStructure(pageId) ==
  [main |-> MainId(pageId), subBlocks |-> <<>>, totalItems |-> 1]

\* a version that leaves totalItems as it is
addSubBlockUncounted(index, pageId) ==
  [index EXCEPT !.subBlocks = Append(@, SubId(pageId, index.totalItems))]

addSubBlock(index, pageId) ==
  [index EXCEPT !.subBlocks = Append(@, SubId(pageId, index.totalItems)),
                !.totalItems = @ + 1]

RECURSIVE extractExternalLinksAndCreateIndex(_, _)
extractExternalLinksAndCreateIndex(pageId, foundLinks) ==
  IF foundLinks = 0 THEN DocumentStructure(pageId)
  ELSE addSubBlock(extractExternalLinksAndCreateIndex(pageId, foundLinks - 1), pageId)

(* ------------------------- page status control ------------------------ *)
\* no page_status_<pageId>.json in the folder
NoFile == [exists |-> FALSE]

ItemRecord(itemId) ==
  [itemId |-> itemId, status |-> "pending", taskId |-> NoTask,
   processedFile |-> NoName, completedAt |-> 0]

initializePageStatusControl(pageId, index, at) ==
  [exists |-> TRUE,
   pageId |-> pageId,
   initialized |-> at,
   tracking |->
     [mainPage |-> ItemRecord(index.main),
      subBlocks |-> [id \in Range(index.subBlocks) |-> ItemRecord(id)],
      totalItems |-> index.totalItems,
      totalSubBlocks |-> Len(index.subBlocks),
      completedItems |-> 0,
      pendingItems |-> index.totalItems],
   finalProcessing |->
     [allCompleted |-> FALSE, finalSummaryCreated |-> FALSE,
      webhookSent |-> FALSE, finalSummaryFile |-> NoName]]

\* the branch of updateItemStatusInControl that matches the item, if any
ItemBranch(statusControl, itemId, contentType) ==
  IF contentType = "main_page" /\ statusControl.tracking.mainPage.itemId = itemId
    THEN "main"
  ELSE IF contentType = "sub_block" /\ itemId \in DOMAIN statusControl.tracking.subBlocks
    THEN "sub"
  ELSE "none"

PreviousStatus(statusControl, itemId, contentType) ==
  CASE ItemBranch(statusControl, itemId, contentType) = "main" ->
         statusControl.tracking.mainPage.status
    [] ItemBranch(statusControl, itemId, contentType) = "sub" ->
         statusControl.tracking.subBlocks[itemId].status
    [] OTHER -> "none"

\* the item record after the assignments of one branch
MarkItem(rec, taskId, status, processedFile, at) ==
  [rec EXCEPT !.status = status, !.taskId = taskId,
              !.processedFile = processedFile,
              !.completedAt =
                 IF status = "completed" /\ rec.status # "completed" THEN at ELSE @]

\* a version that does not look at the previous status
CountsEveryCompletedCall(status, previousStatus) ==
  status = "completed"

\* whether one call counts the item as newly completed
CountsAsCompleted(status, previousStatus) ==
  status = "completed" /\ previousStatus # "completed"

\* the status control object after the mutation of updateItemStatusInControl
\* (before it is saved); only called when ItemBranch is not "none"
MutateStatusControl(statusControl, itemId, contentType, taskId, status, processedFile, at) ==
  LET branch == ItemBranch(statusControl, itemId, contentType)
      prev == PreviousStatus(statusControl, itemId, contentType)
      marked ==
        IF branch = "main"
          THEN [statusControl EXCEPT !.tracking.mainPage =
                  MarkItem(@, taskId, status, processedFile, at)]
          ELSE [statusControl EXCEPT !.tracking.subBlocks[itemId] =
                  MarkItem(@, taskId, status, processedFile, at)]
  IN IF CountsAsCompleted(status, prev)
       THEN [marked EXCEPT !.tracking.completedItems = @ + 1,
                           !.tracking.pendingItems = @ - 1]
       ELSE marked

\* a comparison that one completed item satisfies
SomeCompleted(statusControl) ==
  statusControl.tracking.completedItems >= 1

\* the comparison made after saving
AllCompleted(statusControl) ==
  statusControl.tracking.completedItems = statusControl.tracking.totalItems

\* return value of updateItemStatusInControl: isNull for the two `return null`
updateItemStatusInControl(statusControl, itemId, contentType, taskId, status, processedFile, at) ==
  IF ~statusControl.exists \/ ItemBranch(statusControl, itemId, contentType) = "none"
    THEN [isNull |-> TRUE, statusControl |-> statusControl, allCompleted |-> FALSE]
    ELSE LET sc == MutateStatusControl(statusControl, itemId, contentType,
                                       taskId, status, processedFile, at)
         IN [isNull |-> FALSE, statusControl |-> sc, allCompleted |-> AllCompleted(sc)]

\* number of tracked items whose status is 'completed'
CompletedCount(statusControl) ==
  (IF statusControl.tracking.mainPage.status = "completed" THEN 1 ELSE 0)
  + Cardinality({id \in DOMAIN statusControl.tracking.subBlocks :
                   statusControl.tracking.subBlocks[id].status = "completed"})

(* --------------- workflow state (appscript/NotionAPI.gs) -------------- *)
\* no WORKFLOW_STATE_<pageId> property
NoState == [exists |-> FALSE]

\* what callLLM can return in async mode: the task id of a queued task, null
\* after the last failed attempt, or the text of an immediate result
DispatchOutcomes == {"queued", "failed", "immediate"}
QueuedTask(taskId) == [kind |-> "task", id |-> taskId]
NullTask == [kind |-> "null", id |-> NoTask]
ImmediateText == [kind |-> "text", id |-> NoTask]

callLLM(outcome, taskId) ==
  CASE outcome = "queued" -> QueuedTask(taskId)
    [] outcome = "failed" -> NullTask
    [] OTHER -> ImmediateText

\* the state startLLMProcessing saves last, `returned` being callLLM's value
startLLMProcessing(totalChunks, returned) ==
  [exists |-> TRUE,
   step |-> "waiting_for_llm",
   chunking |-> [totalChunks |-> totalChunks, currentChunkIndex |-> 0,
                 processedChunks |-> <<>>, chunkResults |-> <<>>],
   llm_request |-> [chunkIndex |-> 0],
   taskId |-> returned]

\* a store that keeps the last result alone
StoreChunkResultAlone(chunkResults, chunkIndex, callbackResult) ==
  (chunkIndex :> callbackResult)

\* chunking.chunkResults[chunkId] = {result: callbackResult, ...}
StoreChunkResult(chunkResults, chunkIndex, callbackResult) ==
  (chunkIndex :> callbackResult) @@ chunkResults

\* a step that stays on the chunk
NextChunkIndexSame(currentChunkIndex) == currentChunkIndex

\* const nextChunkIndex = currentChunkIndex + 1
NextChunkIndex(currentChunkIndex) == currentChunkIndex + 1

\* resumeAfterLLMCallback up to its last save: moreChunks tells whether the
\* next chunk is dispatched (`returned` being callLLM's value for it) or the
\* results are combined
resumeAfterLLMCallback(state, callbackResult, returned) ==
  LET currentChunkIndex == state.chunking.currentChunkIndex
      stored == [state EXCEPT
                   !.chunking.chunkResults =
                      StoreChunkResult(@, currentChunkIndex, callbackResult),
                   !.chunking.processedChunks = Append(@, currentChunkIndex)]
      nextChunkIndex == NextChunkIndex(currentChunkIndex)
  IN IF nextChunkIndex < state.chunking.totalChunks
       THEN [moreChunks |-> TRUE,
             state |-> [stored EXCEPT !.chunking.currentChunkIndex = nextChunkIndex,
                                      !.llm_request.chunkIndex = nextChunkIndex,
                                      !.taskId = returned]]
       ELSE [moreChunks |-> FALSE, state |-> stored]

Placeholder == <<"[Chunk processing failed or incomplete]">>

\* chunkSummaries of combineChunkResults: one section per chunk index, in order
combineChunkResults(state) ==
  [i \in 1..state.chunking.totalChunks |->
     LET chunkResults == state.chunking.chunkResults
     IN [chunk |-> i, of |-> state.chunking.totalChunks,
         header |-> <<"## Chunk", i, "of", state.chunking.totalChunks>>,
         text |-> IF (i - 1) \in DOMAIN chunkResults /\ chunkResults[i - 1] # EmptyText
                    THEN chunkResults[i - 1] ELSE Placeholder]]

(* -------------- final summary (unnamed/part_002:1836-2086) ------------ *)
WebhookStatuses == {"2xx", "non2xx", "throws"}

\* the processed file holds the result between '## LLM Processing Result' and a
\* closing blank line and '---'; the lazy match of
\* /## LLM Processing Result\s*\n\n([\s\S]*?)\n\n---/ ends at the first such rule,
\* which is the closing one only if the result has none of its own
ExtractLLMResult(result) ==
  LET cuts == {i \in 1..Len(result) : result[i] = Rule}
  IN IF cuts = {} THEN result
     ELSE SubSeq(result, 1, (CHOOSE i \in cuts : \A j \in cuts : i <= j) - 1)

\* Object.values(statusControl.tracking.subBlocks): insertion order, which is
\* the order of index.subBlocks
SubBlockOrder(subBlocks) ==
  LET ids == DOMAIN subBlocks
      n == Cardinality(ids)
  IN CHOOSE order \in [1..n -> ids] :
       \A i, j \in 1..n : i < j => order[i][2] < order[j][2]

\* results.mainPage followed by results.subBlocks, as createCombinedSummaryContent
\* writes them
createCombinedSummaryContent(statusControl, drive) ==
  LET mainPage == statusControl.tracking.mainPage
      subBlocks == statusControl.tracking.subBlocks
      Loaded(rec) == rec.processedFile # NoName /\ rec.processedFile \in DOMAIN drive
      Part(rec) == [itemId |-> rec.itemId,
                    content |-> ExtractLLMResult(drive[rec.processedFile])]
      mainPart == IF Loaded(mainPage) THEN <<Part(mainPage)>> ELSE <<>>
      order == SubBlockOrder(subBlocks)
      kept == SelectSeq(order, LAMBDA id :
                 Loaded(subBlocks[id]) /\ subBlocks[id].status = "completed")
  IN mainPart \o [i \in 1..Len(kept) |-> Part(subBlocks[kept[i]])]

\* what createFinalSummaryAndSendWebhook returns once the summary file is saved
NoFinalResult ==
  [success |-> FALSE, pageId |-> NoPage, finalSummaryFile |-> NoName,
   webhookSent |-> FALSE]
FinalResult(pageId, finalSummaryFileName, webhookStatus) ==
  [success |-> TRUE, pageId |-> pageId, finalSummaryFile |-> finalSummaryFileName,
   webhookSent |-> (webhookStatus = "2xx")]

\* the status control createFinalSummaryAndSendWebhook saves
FinalizedControlUndone(statusControl, finalSummaryFileName, webhookStatus) ==
  [statusControl EXCEPT
     !.finalProcessing.allCompleted = TRUE,
     !.finalProcessing.finalSummaryCreated = (webhookStatus = "2xx"),
     !.finalProcessing.finalSummaryFile = finalSummaryFileName,
     !.finalProcessing.webhookSent = (@ \/ webhookStatus = "2xx")]
FinalizedControl(statusControl, finalSummaryFileName, webhookStatus) ==
  [statusControl EXCEPT
     !.finalProcessing.allCompleted = TRUE,
     !.finalProcessing.finalSummaryCreated = TRUE,
     !.finalProcessing.finalSummaryFile = finalSummaryFileName,
     !.finalProcessing.webhookSent = (@ \/ webhookStatus = "2xx")]

(* ------------------ routing (unnamed/part_002:1008-1363) -------------- *)
\* doPost: the result handler for a request marked as a Zapier result or one
\* that carries a task id and a result, the regular handler otherwise
Route(req) ==
  IF req.isZapierLLMResult \/ (req.taskId # NoTask /\ req.result # EmptyText)
    THEN "llm_result" ELSE "regular"

(* ------------------------------- state -------------------------------- *)
VARIABLES
  control,        \* page_status_<pageId>.json in the Drive folder, per page
  wf,             \* script property WORKFLOW_STATE_<pageId>, per page
  zapierResult,   \* script property ZAPIER_RESULT_<taskId>, per task id
  files,          \* processed result files on Drive: name -> result text
  finalSummary,   \* per page, the contributions of the last final summary file
  finalRuns,      \* per page, runs of createFinalSummaryAndSendWebhook since its Start
  combined,       \* per page, the sections of the last combined chunk summary
  posts,          \* per page, POSTs made to WEBHOOK_URL since its Start
  finalResult,    \* what the last createFinalSummaryAndSendWebhook returned
  dispatched,     \* the chunk dispatches made so far, in order
  delivered,      \* task ids of a stored workflow whose callback, with a result,
                  \* doPost has routed to the result handler
  nextTask,       \* next task id callZapierWebhook generates
  now,            \* clock: one tick per invocation
  response,       \* the response of the last invocation
  lastReq,        \* the request of the last doPost, and how it was routed
  lastCall,       \* the last call of the tracker: its arguments and what it returned
  trueReturns,    \* per page, number of updateItemStatusInControl calls that
                  \* returned allCompleted = true since the control was initialised
  onlyCompleted,  \* per page, whether every update since then had status 'completed'
  polled,         \* per task id, what the calls of checkForZapierResult made
                  \* since the last doPost returned, in order
  inv,            \* the interleaved callback invocations: position and local copy
  scriptProperties, \* the script properties of the storage system: key -> value
  lastOp,         \* the last storage operation: its arguments and what it returned
  job,            \* a storage operation under way, property access by property access
  chunker         \* a call of chunkContent: its arguments and what it returned

vars == <<control, wf, zapierResult, files, finalSummary, finalRuns, combined,
          finalResult, posts, dispatched, delivered, nextTask, now, response, lastReq, lastCall,
          trueReturns, onlyCompleted, polled, inv, scriptProperties, lastOp, job, chunker>>

workflowVars == <<wf, zapierResult, combined, dispatched, delivered, nextTask, lastReq>>
finalVars == <<files, finalSummary, finalRuns, posts, finalResult>>
trackerHistory == <<lastCall, trueReturns, onlyCompleted>>
\* the web app and its tracker, clock apart
appVars == <<control, wf, zapierResult, files, finalSummary, finalRuns, combined,
             finalResult, posts, dispatched, delivered, nextTask, response, lastReq, lastCall,
             trueReturns, onlyCompleted, polled, inv>>
\* the storage system and the chunker
libVars == <<scriptProperties, lastOp, job, chunker>>
\* no script property is set
NoProps == [k \in {} |-> <<>>]
NoOp == [op |-> "none", path |-> "", content |-> <<>>, isNull |-> FALSE,
         success |-> FALSE, onEmpty |-> FALSE]
NoJob == [op |-> "none", path |-> "", content |-> <<>>, todo |-> <<>>,
          onEmpty |-> FALSE]
NoChunking == [called |-> FALSE]

NoResponse == [status |-> "none", message |-> "none"]
NoRequest ==
  [route |-> "none", pageId |-> "", taskId |-> NoTask, result |-> EmptyText,
   itemId |-> <<>>, contentType |-> "", matched |-> FALSE]
NoCall ==
  [op |-> "none", pageId |-> "", itemId |-> <<>>, contentType |-> "",
   status |-> "", prevStatus |-> "", isNull |-> FALSE, allCompleted |-> FALSE]
NoPolls == [t \in TaskIds |-> <<>>]
Invocations == {"A", "B"}
Idle == [pc |-> "idle", pageId |-> "", itemId |-> <<>>, contentType |-> "",
         taskId |-> NoTask, processedFile |-> NoName, statusControl |-> NoFile,
         allCompleted |-> FALSE, ranFinal |-> FALSE]

\* before anything ran, with a call of chunkContent about to be made
InitApp ==
  /\ control = [p \in Pages |-> NoFile]
  /\ wf = [p \in Pages |-> NoState]
  /\ zapierResult = [t \in TaskIds |-> <<>>]
  /\ files = <<>>
  /\ finalSummary = [p \in Pages |-> <<>>]
  /\ finalRuns = [p \in Pages |-> 0]
  /\ combined = [p \in Pages |-> <<>>]
  /\ posts = [p \in Pages |-> 0]
  /\ finalResult = NoFinalResult
  /\ dispatched = <<>>
  /\ delivered = {}
  /\ nextTask = 1
  /\ now = 1
  /\ response = NoResponse
  /\ lastReq = NoRequest
  /\ lastCall = NoCall
  /\ trueReturns = [p \in Pages |-> 0]
  /\ onlyCompleted = [p \in Pages |-> TRUE]
  /\ polled = NoPolls
  /\ inv = [i \in Invocations |-> Idle]
InitBefore(chunking) ==
  /\ InitApp
  /\ scriptProperties = NoProps
  /\ lastOp = NoOp
  /\ job = NoJob
  /\ chunker = chunking
Init == InitBefore(NoChunking)

(* ------------- the tracker called directly (appscript/Utils.gs) -------- *)
\* initializePageStatusControl(pageId, index) for the index of a document
\* with foundLinks external links; it saves over any existing file
InitializePageStatusControl(pageId, foundLinks) ==
  /\ now < MaxClock
  /\ control' = [control EXCEPT ![pageId] =
       initializePageStatusControl(pageId,
          extractExternalLinksAndCreateIndex(pageId, foundLinks), now)]
  /\ trueReturns' = [trueReturns EXCEPT ![pageId] = 0]
  /\ onlyCompleted' = [onlyCompleted EXCEPT ![pageId] = TRUE]
  /\ lastCall' = [NoCall EXCEPT !.op = "init", !.pageId = pageId]
  /\ now' = now + 1
  /\ UNCHANGED <<workflowVars, finalVars, response, inv, libVars, polled>>

\* the record kept of one call of updateItemStatusInControl that returned ret
TrackerHistory(pageId, itemId, contentType, status, ret) ==
  /\ lastCall' =
       [op |-> "update", pageId |-> pageId, itemId |-> itemId,
        contentType |-> contentType, status |-> status,
        prevStatus |-> IF ret.isNull THEN "none"
                       ELSE PreviousStatus(control[pageId], itemId, contentType),
        isNull |-> ret.isNull, allCompleted |-> ret.allCompleted]
  /\ trueReturns' = IF pageId \in Pages /\ ret.allCompleted
                      THEN [trueReturns EXCEPT ![pageId] = @ + 1] ELSE trueReturns
  /\ onlyCompleted' = IF pageId \in Pages /\ ~ret.isNull /\ status # "completed"
                        THEN [onlyCompleted EXCEPT ![pageId] = FALSE]
                        ELSE onlyCompleted

UpdateItemStatusInControl(pageId, itemId, contentType, taskId, status, processedFile) ==
  LET ret == updateItemStatusInControl(control[pageId], itemId, contentType,
                                       taskId, status, processedFile, now)
  IN /\ now < MaxClock
     /\ control' = [control EXCEPT ![pageId] = ret.statusControl]
     /\ TrackerHistory(pageId, itemId, contentType, status, ret)
     /\ now' = now + 1
     /\ UNCHANGED <<workflowVars, finalVars, response, inv, libVars, polled>>

NextTracker ==
  \/ \E pageId \in Pages, foundLinks \in 0..MaxSub :
       InitializePageStatusControl(pageId, foundLinks)
  \/ \E pageId \in Pages, itemId \in ItemIds, contentType \in ContentTypes,
        taskId \in {NoTask, 1}, status \in Statuses :
       \E processedFile \in {NoName, <<itemId, now>>} :
         UpdateItemStatusInControl(pageId, itemId, contentType, taskId,
                                   status, processedFile)

\* the tracker alone: initializePageStatusControl and updateItemStatusInControl
\* called in any order with any arguments
SpecTracker == Init /\ [][NextTracker]_vars

(* ----------------------- requests doPost receives --------------------- *)
\* the tracking fields of a request: none, a page id alone (a trigger), or the
\* page, item and content type that the dispatch of an item put in its metadata
Trackings ==
  {[pageId |-> NoPage, itemId |-> NoItem, contentType |-> ""]}
  \cup {[pageId |-> p, itemId |-> NoItem, contentType |-> ""] : p \in Pages}
  \cup {[pageId |-> p, itemId |-> MainId(p), contentType |-> "main_page"] : p \in Pages}
  \cup {[pageId |-> p, itemId |-> SubId(p, k), contentType |-> "sub_block"] :
          p \in Pages, k \in 1..MaxSub}

\* isZapierLLMResult is set for a body of XML tags; it is only listed where it
\* changes the route
Requests ==
  {[isZapierLLMResult |-> z, taskId |-> t, result |-> r, pageId |-> tr.pageId,
    itemId |-> tr.itemId, contentType |-> tr.contentType] :
      z \in BOOLEAN, t \in {NoTask} \cup TaskIds, r \in Results, tr \in Trackings}

\* a result callback; the flag is listed where the body lacks one of the two
\* fields, the only case in which it changes the route
ResultRequests ==
  {req \in Requests : /\ Route(req) = "llm_result"
                      /\ req.isZapierLLMResult = ((req.taskId = NoTask) # (req.result = EmptyText))
                      /\ req.pageId # NoPage => req.itemId # NoItem}
\* what doPost routes to the regular handler: a trigger, with a page id or
\* without, and a JSON callback body whose result is empty
RegularRequests ==
  {req \in Requests : /\ Route(req) = "regular"
                      /\ req.itemId = NoItem
                      /\ req.result = EmptyText
                      /\ req.taskId # NoTask => req.pageId # NoPage}

\* findPageIdByTaskId over the stored WORKFLOW_STATE_* properties; NoPage for null
findPageIdByTaskId(props, taskId) ==
  LET hits == {p \in Pages : props[p].exists /\ props[p].taskId = QueuedTask(taskId)}
  IN IF hits = {} THEN NoPage ELSE CHOOSE p \in hits : TRUE

RequestRecord(req, route) ==
  [route |-> route, pageId |-> req.pageId, taskId |-> req.taskId,
   result |-> req.result, itemId |-> req.itemId, contentType |-> req.contentType,
   matched |-> req.taskId # NoTask /\ findPageIdByTaskId(wf, req.taskId) # NoPage]

\* a callback without result is sent for the task its document waits for
ArrivesRegular(req) ==
  req.taskId # NoTask =>
    (wf[req.pageId].exists /\ wf[req.pageId].taskId = QueuedTask(req.taskId))

(* ------------- processNotionPage(pageId): a new workflow -------------- *)
\* doPost_HandleRegularWebhook: with a page id it starts the workflow; the
\* fetch from Notion fails (fetchOk = FALSE) or gives a document with
\* foundLinks external links and totalChunks chunks, and callLLM ends as outcome
DoPostRegular(req, foundLinks, totalChunks, fetchOk, outcome) ==
  /\ now < MaxClock
  /\ Route(req) = "regular"
  /\ ArrivesRegular(req)
  /\ now' = now + 1
  /\ lastReq' = RequestRecord(req, "regular")
  /\ polled' = NoPolls
  /\ UNCHANGED <<zapierResult, combined, delivered, files, finalSummary, finalResult,
               inv, libVars>>
  /\ IF req.pageId = NoPage
       THEN /\ response' = [status |-> "success",
                            message |-> "Webhook received but no pageId found"]
            /\ UNCHANGED <<control, wf, dispatched, nextTask, trackerHistory, finalRuns, posts>>
     ELSE IF ~fetchOk
       THEN \* the error path of processNotionPage: clearWorkflowState, rethrow
            /\ wf' = [wf EXCEPT ![req.pageId] = NoState]
            /\ response' = [status |-> "error", message |-> "fetch failed"]
            /\ UNCHANGED <<control, dispatched, nextTask, trackerHistory, finalRuns, posts>>
     ELSE /\ outcome = "queued" => nextTask <= MaxTasks
          /\ control' = [control EXCEPT ![req.pageId] =
               initializePageStatusControl(req.pageId,
                  extractExternalLinksAndCreateIndex(req.pageId, foundLinks), now)]
          /\ trueReturns' = [trueReturns EXCEPT ![req.pageId] = 0]
          /\ onlyCompleted' = [onlyCompleted EXCEPT ![req.pageId] = TRUE]
          /\ lastCall' = [NoCall EXCEPT !.op = "init", !.pageId = req.pageId]
          /\ finalRuns' = [finalRuns EXCEPT ![req.pageId] = 0]
          /\ posts' = [posts EXCEPT ![req.pageId] = 0]
          /\ wf' = [wf EXCEPT ![req.pageId] =
               startLLMProcessing(totalChunks, callLLM(outcome, nextTask))]
          /\ dispatched' =
               IF outcome = "queued"
                 THEN Append(dispatched, [pageId |-> req.pageId, chunkIndex |-> 0,
                                          taskId |-> nextTask, byStart |-> TRUE])
                 ELSE dispatched
          /\ nextTask' = IF outcome = "queued" THEN nextTask + 1 ELSE nextTask
          /\ response' = [status |-> "success", message |-> "Processing started"]

(* ------ item completion and final processing, as the handlers do ------ *)
\* updateItemStatusInControl(pageId, itemId, contentType, taskId, 'completed',
\* processedFileName) and, when it reports allCompleted,
\* createFinalSummaryAndSendWebhook on the object it returned; drive is the
\* Drive content after the processed file was saved
CompleteItem(req, processedFileName, drive, webhookStatus) ==
  LET loaded == IF req.pageId \in Pages THEN control[req.pageId] ELSE NoFile
      ret == updateItemStatusInControl(loaded, req.itemId, req.contentType,
                                       req.taskId, "completed", processedFileName, now)
      final == ~ret.isNull /\ ret.allCompleted
  IN [ret |-> ret,
      final |-> final,
      control |->
        IF ret.isNull THEN control
        ELSE IF final
          THEN [control EXCEPT ![req.pageId] =
                  FinalizedControl(ret.statusControl, <<"final_summary", req.pageId, now>>,
                                   webhookStatus)]
        ELSE [control EXCEPT ![req.pageId] = ret.statusControl],
      finalSummary |->
        IF final THEN [finalSummary EXCEPT ![req.pageId] =
                         createCombinedSummaryContent(ret.statusControl, drive)]
        ELSE finalSummary,
      finalRuns |-> IF final THEN [finalRuns EXCEPT ![req.pageId] = @ + 1] ELSE finalRuns,
      posts |-> IF final THEN [posts EXCEPT ![req.pageId] = @ + 1] ELSE posts,
      finalResult |->
        IF final THEN FinalResult(req.pageId, <<"final_summary", req.pageId, now>>,
                                  webhookStatus)
        ELSE finalResult]

\* whether the call would run the final processing, whatever the POST returns
RunsFinal(req) == CompleteItem(req, NoName, files, "2xx").final

(* --- doPost_HandleZapierLLMResult, last declaration (part_002:2392) --- *)
HandleZapierLLMResult(req, webhookStatus) ==
  LET processedFileName == <<"processed", req.itemId, now>>
      drive == (processedFileName :> req.result) @@ files
      done == CompleteItem(req, processedFileName, drive, webhookStatus)
  IN /\ files' = drive
     /\ control' = done.control
     /\ finalSummary' = done.finalSummary
     /\ finalRuns' = done.finalRuns
     /\ posts' = done.posts
     /\ finalResult' = done.finalResult
     /\ TrackerHistory(req.pageId, req.itemId, req.contentType, "completed", done.ret)
     /\ response' = IF done.final
                      THEN [status |-> "completed_all",
                            message |-> "All items completed and final webhook sent"]
                      ELSE [status |-> "completed_item",
                            message |-> "Item processed successfully, waiting for others"]
     /\ UNCHANGED <<wf, zapierResult, combined, dispatched, nextTask>>

\* doPost routing a result callback to the handler bound to the name
DoPostLLMResult(req) ==
  /\ now < MaxClock
  /\ Route(req) = "llm_result"
  /\ now' = now + 1
  /\ lastReq' = RequestRecord(req, "llm_result")
  /\ polled' = NoPolls
  /\ delivered' = IF /\ req.taskId # NoTask
                       /\ req.result # EmptyText
                       /\ findPageIdByTaskId(wf, req.taskId) # NoPage
                    THEN delivered \cup {req.taskId} ELSE delivered
  /\ UNCHANGED <<inv, libVars>>
  /\ IF RunsFinal(req)
       THEN \E webhookStatus \in WebhookStatuses : HandleZapierLLMResult(req, webhookStatus)
       ELSE HandleZapierLLMResult(req, "2xx")

(* ------------- requests that doPost answers before routing ------------ *)
\* no body at all; a body that is neither JSON nor holds a pageId, taskId or
\* result tag; the JSON body null, on which the routing test throws
UnroutedBodies == {"missing", "unparsable", "null"}
\* an exception that leaves doPost
Propagated(error) == [status |-> "exception", message |-> "none"]
\* the catch block around the body of doPost
CriticalError(error) == [status |-> "error", message |-> "Critical error in doPost"]
DoPostUnrouted(body) ==
  /\ now < MaxClock
  /\ now' = now + 1
  /\ lastReq' = [NoRequest EXCEPT !.route = body]
  /\ polled' = NoPolls
  /\ response' =
       CASE body = "missing" ->
              [status |-> "error", message |-> "No POST data received"]
         [] body = "unparsable" ->
              [status |-> "error", message |-> "Invalid JSON data"]
         [] OTHER -> CriticalError("TypeError")
  /\ UNCHANGED <<control, wf, zapierResult, combined, dispatched, delivered, nextTask,
                 finalVars, trackerHistory, inv, libVars>>

Next ==
  \/ \E req \in RegularRequests, foundLinks \in 0..MaxSub, totalChunks \in 1..MaxChunks,
        fetchOk \in BOOLEAN, outcome \in DispatchOutcomes :
       DoPostRegular(req, foundLinks, totalChunks, fetchOk, outcome)
  \/ \E req \in ResultRequests : DoPostLLMResult(req)
  \/ \E body \in UnroutedBodies : DoPostUnrouted(body)

\* the web app as deployed: doPost with the result handler that the name
\* doPost_HandleZapierLLMResult is bound to, the last declaration of the file
Spec == Init /\ [][Next]_vars

(* --- doPost_HandleZapierLLMResult, first declaration (part_002:1538) -- *)
\* processNotionPage(pageId, true, callbackResult) as the handler calls it:
\* what it leaves in the workflow state, what it dispatches and what it combines
ResumeWorkflow(pageId, callbackResult, outcome) ==
  LET state == wf[pageId]
      resumed == resumeAfterLLMCallback(state, callbackResult, callLLM(outcome, nextTask))
      resumes == callbackResult # EmptyText /\ state.step = "waiting_for_llm"
      continues == resumes /\ resumed.moreChunks
      combines == resumes /\ ~resumed.moreChunks
  IN [continues |-> continues,
      combines |-> combines,
      queued |-> continues /\ outcome = "queued",
      state |-> IF continues THEN resumed.state
                ELSE IF combines THEN NoState
                ELSE state,
      sections |-> IF combines THEN combineChunkResults(resumed.state) ELSE <<>>,
      chunkIndex |-> IF continues THEN resumed.state.chunking.currentChunkIndex ELSE 0]

FirstHandleZapierLLMResult(req, webhookStatus, outcome) ==
  LET tracked == req.contentType # ""
      processedFileName == IF tracked THEN <<"processed", req.itemId, now>>
                           ELSE <<"processed_result", req.taskId, now>>
      drive == (processedFileName :> req.result) @@ files
      tracks == req.pageId # NoPage /\ req.itemId # NoItem /\ tracked
      done == IF tracks THEN CompleteItem(req, processedFileName, drive, webhookStatus)
              ELSE [ret |-> [isNull |-> TRUE], final |-> FALSE, control |-> control,
                    finalSummary |-> finalSummary, finalRuns |-> finalRuns,
                    posts |-> posts, finalResult |-> finalResult]
      pageIdFromWorkflow == findPageIdByTaskId(wf, req.taskId)
  IN IF req.taskId = NoTask
       THEN \* 'No taskId provided in Zapier callback'
            /\ response' = [status |-> "error", message |-> "Error processing result"]
            /\ UNCHANGED <<control, wf, zapierResult, combined, dispatched, nextTask,
                           finalVars, trackerHistory>>
     ELSE
       /\ files' = drive
       /\ control' = done.control
       /\ finalSummary' = done.finalSummary
       /\ finalRuns' = done.finalRuns
       /\ finalResult' = done.finalResult
       /\ IF tracks
            THEN TrackerHistory(req.pageId, req.itemId, req.contentType, "completed",
                                done.ret)
            ELSE UNCHANGED trackerHistory
       /\ IF pageIdFromWorkflow # NoPage
            THEN LET resume == ResumeWorkflow(pageIdFromWorkflow, req.result, outcome)
                 IN /\ resume.queued => nextTask <= MaxTasks
                    /\ wf' = [wf EXCEPT ![pageIdFromWorkflow] = resume.state]
                    /\ dispatched' =
                         IF resume.queued
                           THEN Append(dispatched,
                                  [pageId |-> pageIdFromWorkflow,
                                   chunkIndex |-> resume.chunkIndex,
                                   taskId |-> nextTask, byStart |-> FALSE])
                           ELSE dispatched
                    /\ nextTask' = IF resume.queued THEN nextTask + 1 ELSE nextTask
                    /\ combined' = IF resume.combines
                                     THEN [combined EXCEPT ![pageIdFromWorkflow] =
                                             resume.sections]
                                     ELSE combined
                    /\ posts' = IF resume.combines
                                  THEN [done.posts EXCEPT ![pageIdFromWorkflow] = @ + 1]
                                  ELSE done.posts
                    /\ response' = [status |-> "success",
                                    message |-> "Workflow resumed and completed"]
                    /\ UNCHANGED zapierResult
            ELSE /\ zapierResult' = [zapierResult EXCEPT ![req.taskId] = <<req.result>>]
                 /\ posts' = done.posts
                 /\ response' = [status |-> "success",
                                 message |-> "Result saved for polling"]
                 /\ UNCHANGED <<wf, dispatched, nextTask, combined>>

\* the inputs of the handler that decide nothing in the call are fixed
DoPostLLMResultFirst(req, webhookStatus, outcome) ==
  /\ now < MaxClock
  /\ Route(req) = "llm_result"
  /\ now' = now + 1
  /\ lastReq' = RequestRecord(req, "llm_result")
  /\ polled' = NoPolls
  /\ delivered' = IF /\ req.taskId # NoTask
                       /\ req.result # EmptyText
                       /\ findPageIdByTaskId(wf, req.taskId) # NoPage
                    THEN delivered \cup {req.taskId} ELSE delivered
  /\ UNCHANGED <<inv, libVars>>
  /\ (req.taskId # NoTask /\ req.itemId # NoItem /\ RunsFinal(req))
       \/ webhookStatus = "2xx"
  /\ LET found == IF req.taskId = NoTask THEN NoPage
                  ELSE findPageIdByTaskId(wf, req.taskId)
     IN (found # NoPage /\ ResumeWorkflow(found, req.result, outcome).continues)
          \/ outcome = "queued"
  /\ FirstHandleZapierLLMResult(req, webhookStatus, outcome)

NextFirstDecl ==
  \/ \E req \in RegularRequests, foundLinks \in 0..MaxSub, totalChunks \in 1..MaxChunks,
        fetchOk \in BOOLEAN, outcome \in DispatchOutcomes :
       DoPostRegular(req, foundLinks, totalChunks, fetchOk, outcome)
  \/ \E req \in ResultRequests, webhookStatus \in WebhookStatuses,
        outcome \in DispatchOutcomes :
       DoPostLLMResultFirst(req, webhookStatus, outcome)

(* --------------------- the legacy polling of results ------------------ *)
MaxPolls == 2
\* checkForZapierResult(taskId): the stored result, which it deletes, or null
checkForZapierResult(properties, taskId) ==
  IF properties[taskId] # <<>>
    THEN [returned |-> [isNull |-> FALSE, result |-> properties[taskId][1]],
          properties |-> [properties EXCEPT ![taskId] = <<>>]]
    ELSE [returned |-> [isNull |-> TRUE, result |-> EmptyText],
          properties |-> properties]
CheckForZapierResult(taskId) ==
  /\ now < MaxClock
  /\ Len(polled[taskId]) < MaxPolls
  /\ now' = now + 1
  /\ LET check == checkForZapierResult(zapierResult, taskId)
     IN  /\ polled' = [polled EXCEPT ![taskId] = Append(@, check.returned)]
         /\ zapierResult' = check.properties
  /\ UNCHANGED <<control, wf, combined, dispatched, delivered, nextTask, lastReq,
                 response, finalVars, trackerHistory, inv, libVars>>

\* the deployed web app and the polling of results
NextPolling ==
  \/ Next
  \/ \E taskId \in TaskIds : CheckForZapierResult(taskId)
SpecPolling == Init /\ [][NextPolling]_vars

\* the same web app with the name doPost_HandleZapierLLMResult bound to its
\* first declaration, the only caller of processNotionPage(pageId, true, result)
SpecFirstDecl == Init /\ [][NextFirstDecl]_vars

\* the first declaration and the polling of results
NextPollingFirstDecl ==
  \/ NextFirstDecl
  \/ \E taskId \in TaskIds : CheckForZapierResult(taskId)
SpecPollingFirstDecl == Init /\ [][NextPollingFirstDecl]_vars

(* -- processNotionPage in concurrent executions, step by saveWorkflowState -- *)
\* a state saved before callLLM returned holds no task id of the dispatch
NoTaskId == [kind |-> "none", id |-> NoTask]
\* a trigger for a page and the callback of a task, as callZapierWebhook's
\* receiver sends it: task id and result, no tracking fields
Trigger(pageId) ==
  [isZapierLLMResult |-> FALSE, taskId |-> NoTask, result |-> EmptyText,
   pageId |-> pageId, itemId |-> NoItem, contentType |-> ""]
Callback(taskId, result) ==
  [isZapierLLMResult |-> FALSE, taskId |-> taskId, result |-> result,
   pageId |-> NoPage, itemId |-> NoItem, contentType |-> ""]
\* an execution between two of its saves: the page it works on, the task id of
\* the callback it resumes from (NoTask for a Start) and its state object
Execution(pc, pageId, taskId, state) ==
  [pc |-> pc, pageId |-> pageId, taskId |-> taskId, state |-> state]

\* a deletion that leaves the property in place
clearWorkflowStateKept(properties, pageId) == properties
\* clearWorkflowState(pageId): deleteProperty('WORKFLOW_STATE_' + pageId)
clearWorkflowState(properties, pageId) == [properties EXCEPT ![pageId] = NoState]

\* processNotionPage(pageId) whose fetch from Notion throws: the catch block
\* clears the workflow state and rethrows, the handler answers with the error
StartFails(i, pageId) ==
  /\ now < MaxClock
  /\ inv[i].pc \in {"idle", "done"}
  /\ now' = now + 1
  /\ lastReq' = RequestRecord(Trigger(pageId), "regular")
  /\ polled' = NoPolls
  /\ wf' = clearWorkflowState(wf, pageId)
  /\ inv' = [inv EXCEPT ![i] = Execution("done", pageId, NoTask, NoState)]
  /\ response' = [status |-> "error", message |-> "fetch failed"]
  /\ UNCHANGED <<control, zapierResult, combined, dispatched, delivered, nextTask,
                 finalVars, trackerHistory, libVars>>

\* processNotionPage(pageId) up to the first saveWorkflowState of
\* startLLMProcessing: step 'waiting_for_llm', callLLM not called yet
StartSaves(i, pageId, foundLinks, totalChunks) ==
  /\ now < MaxClock
  /\ inv[i].pc \in {"idle", "done"}
  /\ now' = now + 1
  /\ lastReq' = RequestRecord(Trigger(pageId), "regular")
  /\ polled' = NoPolls
  /\ control' = [control EXCEPT ![pageId] =
       initializePageStatusControl(pageId,
          extractExternalLinksAndCreateIndex(pageId, foundLinks), now)]
  /\ trueReturns' = [trueReturns EXCEPT ![pageId] = 0]
  /\ onlyCompleted' = [onlyCompleted EXCEPT ![pageId] = TRUE]
  /\ lastCall' = [NoCall EXCEPT !.op = "init", !.pageId = pageId]
  /\ finalRuns' = [finalRuns EXCEPT ![pageId] = 0]
  /\ posts' = [posts EXCEPT ![pageId] = 0]
  /\ wf' = [wf EXCEPT ![pageId] = startLLMProcessing(totalChunks, NoTaskId)]
  /\ inv' = [inv EXCEPT ![i] =
       Execution("saved", pageId, NoTask, startLLMProcessing(totalChunks, NoTaskId))]
  /\ UNCHANGED <<zapierResult, combined, dispatched, delivered, nextTask, files,
                 finalSummary, finalResult, response, libVars>>

\* the first declaration of the result handler up to the saveWorkflowState of
\* resumeAfterLLMCallback that precedes callLLM, or to its end when the task
\* is unknown, the last chunk came back, or an error is thrown while resuming
\* (resumeOk = FALSE)
CallbackSaves(i, req, resumeOk) ==
  /\ now < MaxClock
  /\ inv[i].pc \in {"idle", "done"}
  /\ now' = now + 1
  /\ lastReq' = RequestRecord(req, "llm_result")
  /\ polled' = NoPolls
  /\ files' = (<<"processed_result", req.taskId, now>> :> req.result) @@ files
  /\ UNCHANGED <<control, dispatched, nextTask, finalSummary, finalRuns, finalResult,
                 trackerHistory, libVars>>
  /\ LET pageIdFromWorkflow == findPageIdByTaskId(wf, req.taskId)
         resumed == resumeAfterLLMCallback(wf[pageIdFromWorkflow], req.result,
                                           wf[pageIdFromWorkflow].taskId)
     IN IF pageIdFromWorkflow = NoPage
          THEN /\ zapierResult' = [zapierResult EXCEPT ![req.taskId] = <<req.result>>]
               /\ response' = [status |-> "success",
                               message |-> "Result saved for polling"]
               /\ inv' = [inv EXCEPT ![i] = Execution("done", NoPage, req.taskId, NoState)]
               /\ UNCHANGED <<wf, combined, posts, delivered>>
        ELSE IF ~resumeOk
          THEN \* the catch blocks of processNotionPage and of the handler
               /\ wf' = clearWorkflowState(wf, pageIdFromWorkflow)
               /\ delivered' = delivered \cup {req.taskId}
               /\ response' = [status |-> "error", message |-> "Error resuming workflow"]
               /\ inv' = [inv EXCEPT ![i] =
                    Execution("done", pageIdFromWorkflow, req.taskId, NoState)]
               /\ UNCHANGED <<zapierResult, combined, posts>>
        ELSE IF resumed.moreChunks
          THEN /\ wf' = [wf EXCEPT ![pageIdFromWorkflow] = resumed.state]
               /\ delivered' = delivered \cup {req.taskId}
               /\ inv' = [inv EXCEPT ![i] =
                    Execution("saved", pageIdFromWorkflow, req.taskId, resumed.state)]
               /\ UNCHANGED <<zapierResult, combined, posts, response>>
        ELSE /\ wf' = clearWorkflowState(wf, pageIdFromWorkflow)
             /\ delivered' = delivered \cup {req.taskId}
             /\ combined' = [combined EXCEPT ![pageIdFromWorkflow] =
                  combineChunkResults(resumed.state)]
             /\ posts' = [posts EXCEPT ![pageIdFromWorkflow] = @ + 1]
             /\ response' = [status |-> "success",
                             message |-> "Workflow resumed and completed"]
             /\ inv' = [inv EXCEPT ![i] =
                  Execution("done", pageIdFromWorkflow, req.taskId, NoState)]
             /\ UNCHANGED zapierResult

\* callLLM returns: the chunk of the saved index is with the receiver
CallsLLM(i, outcome) ==
  /\ inv[i].pc = "saved"
  /\ outcome = "queued" => nextTask <= MaxTasks
  /\ inv' = [inv EXCEPT ![i].pc = "called",
                        ![i].state.taskId = callLLM(outcome, nextTask)]
  /\ dispatched' =
       IF outcome = "queued"
         THEN Append(dispatched,
                [pageId |-> inv[i].pageId,
                 chunkIndex |-> inv[i].state.chunking.currentChunkIndex,
                 taskId |-> nextTask, byStart |-> inv[i].taskId = NoTask])
         ELSE dispatched
  /\ nextTask' = IF outcome = "queued" THEN nextTask + 1 ELSE nextTask
  /\ UNCHANGED <<control, wf, zapierResult, combined, delivered, lastReq, response, now,
                 polled, finalVars, trackerHistory, libVars>>

\* state.taskId = taskId; saveWorkflowState(pageId, state), and the response
SavesTaskId(i) ==
  /\ inv[i].pc = "called"
  /\ wf' = [wf EXCEPT ![inv[i].pageId] = inv[i].state]
  /\ inv' = [inv EXCEPT ![i].pc = "done"]
  /\ response' = IF inv[i].taskId = NoTask
                   THEN [status |-> "success", message |-> "Processing started"]
                   ELSE [status |-> "success",
                         message |-> "Workflow resumed and completed"]
  /\ UNCHANGED <<control, zapierResult, combined, dispatched, delivered, nextTask,
                 lastReq, now, polled, finalVars, trackerHistory, libVars>>

\* an error thrown after a save of the state (by saveWorkflowState itself, by
\* a Drive call): the catch block of processNotionPage clears the state
ThrowsAfterSave(i) ==
  /\ inv[i].pc \in {"saved", "called"}
  /\ wf' = clearWorkflowState(wf, inv[i].pageId)
  /\ inv' = [inv EXCEPT ![i].pc = "done", ![i].state = NoState]
  /\ response' = IF inv[i].taskId = NoTask
                   THEN [status |-> "error", message |-> "save failed"]
                   ELSE [status |-> "error", message |-> "Error resuming workflow"]
  /\ UNCHANGED <<control, zapierResult, combined, dispatched, delivered, nextTask,
                 lastReq, now, polled, finalVars, trackerHistory, libVars>>

NextExecutions ==
  \/ \E i \in Invocations, pageId \in Pages, foundLinks \in 0..MaxSub,
        totalChunks \in 1..MaxChunks :
       StartSaves(i, pageId, foundLinks, totalChunks)
  \/ \E i \in Invocations, pageId \in Pages : StartFails(i, pageId)
  \/ \E i \in Invocations, taskId \in TaskIds, result \in Results \ {EmptyText},
        resumeOk \in BOOLEAN :
       CallbackSaves(i, Callback(taskId, result), resumeOk)
  \/ \E i \in Invocations, outcome \in DispatchOutcomes : CallsLLM(i, outcome)
  \/ \E i \in Invocations : SavesTaskId(i)
  \/ \E i \in Invocations : ThrowsAfterSave(i)

\* triggers and callbacks handled by concurrent executions of the web app
SpecExecutions == Init /\ [][NextExecutions]_vars

(* ---- two invocations of the result handler, step by Drive access ----- *)
\* the handler up to the read of loadPageStatusControl: the processed file
\* is saved and the status control is read into the invocation
InvLoad(i, req) ==
  /\ now < MaxClock
  /\ inv[i].pc \in {"idle", "done"}
  /\ req.itemId # NoItem /\ req.taskId # NoTask /\ req.result # EmptyText
  /\ LET processedFileName == <<"processed", req.itemId, now>>
     IN /\ files' = (processedFileName :> req.result) @@ files
        /\ inv' = [inv EXCEPT ![i] =
             [pc |-> "loaded", pageId |-> req.pageId, itemId |-> req.itemId,
              contentType |-> req.contentType, taskId |-> req.taskId,
              processedFile |-> processedFileName,
              statusControl |-> control[req.pageId],
              allCompleted |-> FALSE, ranFinal |-> FALSE]]
  /\ now' = now + 1
  /\ UNCHANGED <<libVars, polled, control, workflowVars, finalSummary, finalRuns, posts,
               finalResult, response,
                 trackerHistory>>

\* the rest of updateItemStatusInControl: the copy is changed, written by
\* savePageStatusControl, and compared
InvSave(i) ==
  /\ inv[i].pc = "loaded"
  /\ LET ret == updateItemStatusInControl(inv[i].statusControl, inv[i].itemId,
                   inv[i].contentType, inv[i].taskId, "completed",
                   inv[i].processedFile, now)
     IN IF ret.isNull
          THEN /\ inv' = [inv EXCEPT ![i].pc = "saved"]
               /\ UNCHANGED control
          ELSE /\ control' = [control EXCEPT ![inv[i].pageId] = ret.statusControl]
               /\ inv' = [inv EXCEPT ![i].pc = "saved",
                                     ![i].statusControl = ret.statusControl,
                                     ![i].allCompleted = ret.allCompleted]
  /\ UNCHANGED <<workflowVars, finalVars, response, trackerHistory, now, libVars, polled>>

\* allCompleted: createFinalSummaryAndSendWebhook on the invocation's copy
InvFinal(i, webhookStatus) ==
  /\ inv[i].pc = "saved"
  /\ inv[i].allCompleted
  /\ control' = [control EXCEPT ![inv[i].pageId] =
       FinalizedControl(inv[i].statusControl, <<"final_summary", inv[i].pageId, now>>,
                        webhookStatus)]
  /\ finalSummary' = [finalSummary EXCEPT ![inv[i].pageId] =
       createCombinedSummaryContent(inv[i].statusControl, files)]
  /\ finalRuns' = [finalRuns EXCEPT ![inv[i].pageId] = @ + 1]
  /\ posts' = [posts EXCEPT ![inv[i].pageId] = @ + 1]
  /\ finalResult' = FinalResult(inv[i].pageId, <<"final_summary", inv[i].pageId, now>>,
                              webhookStatus)
  /\ inv' = [inv EXCEPT ![i].pc = "done", ![i].ranFinal = TRUE]
  /\ response' = [status |-> "completed_all",
                  message |-> "All items completed and final webhook sent"]
  /\ UNCHANGED <<workflowVars, files, trackerHistory, now, libVars, polled>>

\* not allCompleted: the handler answers and ends
InvReturn(i) ==
  /\ inv[i].pc = "saved"
  /\ ~inv[i].allCompleted
  /\ inv' = [inv EXCEPT ![i].pc = "done"]
  /\ response' = [status |-> "completed_item",
                  message |-> "Item processed successfully, waiting for others"]
  /\ UNCHANGED <<control, workflowVars, finalVars, trackerHistory, now, libVars, polled>>

NextInterleaved ==
  \/ \E pageId \in Pages, foundLinks \in 0..MaxSub :
       InitializePageStatusControl(pageId, foundLinks)
  \/ \E i \in Invocations, req \in ResultRequests : InvLoad(i, req)
  \/ \E i \in Invocations : InvSave(i)
  \/ \E i \in Invocations, webhookStatus \in WebhookStatuses : InvFinal(i, webhookStatus)
  \/ \E i \in Invocations : InvReturn(i)

\* callbacks handled by concurrent executions of the web app
SpecInterleaved == Init /\ [][NextInterleaved]_vars

(* ------------------- the properties storage system ------------------- *)
\* STORAGE_CONFIG, scaled: the largest content of one property, the number of
\* entries above which a save cleans up, the age (in ticks) of an old entry
MaxChunkSize == 2
MaxEntries == 1
MaxAge == 1
\* longest payload a save is given
MaxLen == 5
\* storage paths
Paths == {"k1", "k2"}
\* a payload is a string whose characters are all different: the k-th
\* character of the payload tagged t is <<t, k>>
Tags == {"a", "b"}
Payload(tag, n) == [k \in 1..n |-> <<tag, k>>]
Payloads == {Payload(tag, n) : tag \in Tags, n \in 0..MaxLen}

\* `STORAGE_${path}`, `STORAGE_${path}_META`, `STORAGE_${path}_CHUNK_${index}`
SingleKey(path) == [slot |-> "single", path |-> path, index |-> 0]
MetaKey(path) == [slot |-> "meta", path |-> path, index |-> 0]
ChunkKey(path, index) == [slot |-> "chunk", path |-> path, index |-> index]

setProperty(properties, key, value) ==
  [k \in DOMAIN properties \cup {key} |-> IF k = key THEN value ELSE properties[k]]
deleteProperty(properties, key) ==
  [k \in DOMAIN properties \ {key} |-> properties[k]]
hasProperty(properties, key) == key \in DOMAIN properties

\* content.substring(from, to)
substringPastEnd(content, from, to) ==
  SubSeq(content, from + 1, IF to + 1 <= Len(content) THEN to + 1 ELSE Len(content))
substring(content, from, to) ==
  SubSeq(content, from + 1, IF to <= Len(content) THEN to ELSE Len(content))

\* for (let i = 0; i < content.length; i += maxChunkSize): the [from, to) of
\* each chunk pushed, for a content of the given length
RECURSIVE ChunkBoundsUneven(_, _, _)
ChunkBoundsUneven(i, length, maxChunkSize) ==
  IF i < length
  THEN <<[from |-> i, to |-> i + maxChunkSize + (IF i = 0 THEN 1 ELSE 0)]>>
       \o ChunkBoundsUneven(i + maxChunkSize + (IF i = 0 THEN 1 ELSE 0),
                            length, maxChunkSize)
  ELSE <<>>
RECURSIVE ChunkBounds(_, _, _)
ChunkBounds(i, length, maxChunkSize) ==
  IF i < length
  THEN <<[from |-> i, to |-> i + maxChunkSize]>>
       \o ChunkBounds(i + maxChunkSize, length, maxChunkSize)
  ELSE <<>>
SplitInChunks(content, maxChunkSize) ==
  LET bounds == ChunkBounds(0, Len(content), maxChunkSize)
  IN  [c \in 1..Len(bounds) |-> substring(content, bounds[c].from, bounds[c].to)]

\* the property writes of saveToStorage, in the order it makes them
SaveWrites(path, content, at) ==
  IF Len(content) <= MaxChunkSize
  THEN <<[set |-> TRUE, key |-> SingleKey(path),
          value |-> [content |-> content,
                     metadata |-> [timestamp |-> at, size |-> Len(content),
                                   chunked |-> FALSE, chunkCount |-> 0]]]>>
  ELSE LET chunks == SplitInChunks(content, MaxChunkSize)
       IN  [c \in 1..Len(chunks) |->
              [set |-> TRUE, key |-> ChunkKey(path, c - 1), value |-> chunks[c]]]
           \o <<[set |-> TRUE, key |-> MetaKey(path),
                 value |-> [content |-> <<>>,
                            metadata |-> [timestamp |-> at, size |-> Len(content),
                                          chunked |-> TRUE,
                                          chunkCount |-> Len(chunks)]]]>>

\* the property deletions of deleteFromStorage, in the order it makes them
DeleteWrites(properties, path) ==
  <<[set |-> FALSE, key |-> SingleKey(path), value |-> <<>>]>>
  \o (IF hasProperty(properties, MetaKey(path))
      THEN LET chunkCount == properties[MetaKey(path)].metadata.chunkCount
           IN  [c \in 1..chunkCount |->
                  [set |-> FALSE, key |-> ChunkKey(path, c - 1), value |-> <<>>]]
               \o <<[set |-> FALSE, key |-> MetaKey(path), value |-> <<>>]>>
      ELSE <<>>)

ApplyWrite(properties, w) ==
  IF w.set THEN setProperty(properties, w.key, w.value)
  ELSE deleteProperty(properties, w.key)
RECURSIVE ApplyWrites(_, _)
ApplyWrites(properties, writes) ==
  IF writes = <<>> THEN properties
  ELSE ApplyWrites(ApplyWrite(properties, Head(writes)), Tail(writes))

deleteFromStorage(properties, path) ==
  ApplyWrites(properties, DeleteWrites(properties, path))

\* keys that start with STORAGE_, hold no _CHUNK_ and do not end with _META
StorageEntryKeys(properties) == {k \in DOMAIN properties : k.slot = "single"}
RECURSIVE DeleteEntries(_, _)
DeleteEntries(properties, paths) ==
  IF paths = {} THEN properties
  ELSE LET path == CHOOSE p \in paths : TRUE
       IN  DeleteEntries(deleteFromStorage(properties, path), paths \ {path})
cleanupOldStorageEntries(properties, olderThan, at) ==
  LET cutoffTime == at - olderThan
      entriesToClean ==
        {k.path : k \in {e \in StorageEntryKeys(properties) :
                           properties[e].metadata.timestamp < cutoffTime}}
  IN  DeleteEntries(properties, entriesToClean)
autoCleanupIfNeeded(properties, at) ==
  IF Cardinality(StorageEntryKeys(properties)) > MaxEntries
  THEN cleanupOldStorageEntries(properties, MaxAge, at)
  ELSE properties

saveToStorage(properties, path, content, at) ==
  ApplyWrites(autoCleanupIfNeeded(properties, at), SaveWrites(path, content, at))

\* reconstructedContent of loadFromStorage: an absent chunk is passed over
RECURSIVE Reconstruct(_, _, _, _)
Reconstruct(properties, path, i, chunkCount) ==
  IF i < chunkCount
  THEN (IF hasProperty(properties, ChunkKey(path, i))
        THEN properties[ChunkKey(path, i)] ELSE <<>>)
       \o Reconstruct(properties, path, i + 1, chunkCount)
  ELSE <<>>
NoMetadata == [timestamp |-> 0, size |-> 0, chunked |-> FALSE, chunkCount |-> 0]
loadFromStorage(properties, path) ==
  IF hasProperty(properties, SingleKey(path))
  THEN [isNull |-> FALSE, content |-> properties[SingleKey(path)].content,
        metadata |-> properties[SingleKey(path)].metadata]
  ELSE IF hasProperty(properties, MetaKey(path))
  THEN [isNull |-> FALSE,
        content |-> Reconstruct(properties, path, 0,
                                properties[MetaKey(path)].metadata.chunkCount),
        metadata |-> properties[MetaKey(path)].metadata]
  ELSE [isNull |-> TRUE, content |-> <<>>, metadata |-> NoMetadata]

\* what the last storage call was and what it returned
StorageOp(op, path, content, isNull, success, onEmpty) ==
  [op |-> op, path |-> path, content |-> content, isNull |-> isNull,
   success |-> success, onEmpty |-> onEmpty]

(* ---- storage calls that run from start to end without interruption ---- *)
SaveToStorage(path, content) ==
  /\ now < MaxClock
  /\ scriptProperties' = saveToStorage(scriptProperties, path, content, now)
  /\ lastOp' = StorageOp("save", path, content, FALSE, TRUE,
                         scriptProperties = NoProps)
  /\ now' = now + 1
  /\ UNCHANGED <<appVars, job, chunker>>

LoadFromStorage(path) ==
  /\ LET loaded == loadFromStorage(scriptProperties, path)
     IN  lastOp' = StorageOp("load", path, loaded.content, loaded.isNull, TRUE, FALSE)
  /\ UNCHANGED <<appVars, now, scriptProperties, job, chunker>>

DeleteFromStorage(path) ==
  /\ now < MaxClock
  /\ scriptProperties' = deleteFromStorage(scriptProperties, path)
  /\ lastOp' = StorageOp("delete", path, <<>>, FALSE, TRUE, FALSE)
  /\ now' = now + 1
  /\ UNCHANGED <<appVars, job, chunker>>

NextStorage ==
  \/ \E path \in Paths, content \in Payloads : SaveToStorage(path, content)
  \/ \E path \in Paths : LoadFromStorage(path)
  \/ \E path \in Paths : DeleteFromStorage(path)

SpecStorage == Init /\ [][NextStorage]_vars

(* ---- storage calls taken one property access at a time; a load of ---- *)
(* ---- another invocation can run between two of them                ---- *)
StorageJob(op, path, content, todo, onEmpty) ==
  [op |-> op, path |-> path, content |-> content, todo |-> todo,
   onEmpty |-> onEmpty]

\* saveToStorage up to its first property write
BeginSave(path, content) ==
  /\ job.op = "none"
  /\ now < MaxClock
  /\ scriptProperties' = autoCleanupIfNeeded(scriptProperties, now)
  /\ job' = StorageJob("save", path, content, SaveWrites(path, content, now),
                       scriptProperties = NoProps)
  /\ now' = now + 1
  /\ UNCHANGED <<appVars, lastOp, chunker>>

\* deleteFromStorage up to its first deletion
BeginDelete(path) ==
  /\ job.op = "none"
  /\ now < MaxClock
  /\ job' = StorageJob("delete", path, <<>>,
                       DeleteWrites(scriptProperties, path), FALSE)
  /\ now' = now + 1
  /\ UNCHANGED <<appVars, scriptProperties, lastOp, chunker>>

\* the next setProperty or deleteProperty of the call under way; the call
\* returns success after the last one
PropertyWrite ==
  /\ job.op # "none"
  /\ scriptProperties' = ApplyWrite(scriptProperties, Head(job.todo))
  /\ IF Len(job.todo) = 1
     THEN /\ job' = NoJob
          /\ lastOp' = StorageOp(job.op, job.path, job.content, FALSE, TRUE,
                                 job.onEmpty)
     ELSE /\ job' = [job EXCEPT !.todo = Tail(job.todo)]
          /\ UNCHANGED lastOp
  /\ UNCHANGED <<appVars, now, chunker>>

\* the next property access throws: the catch block returns success: false
\* and what was written stays
PropertyWriteThrows ==
  /\ job.op # "none"
  /\ job' = NoJob
  /\ lastOp' = StorageOp(job.op, job.path, job.content, FALSE, FALSE, job.onEmpty)
  /\ UNCHANGED <<appVars, now, scriptProperties, chunker>>

NextStorageSteps ==
  \/ \E path \in Paths, content \in Payloads : BeginSave(path, content)
  \/ \E path \in Paths : BeginDelete(path)
  \/ PropertyWrite
  \/ PropertyWriteThrows
  \/ \E path \in Paths : LoadFromStorage(path)

SpecStorageSteps == Init /\ [][NextStorageSteps]_vars

(* ----------------------------- chunkContent ---------------------------- *)
\* longest text chunkContent is given, and largest maxChunkSize
MaxText == 6
MaxSize == 4
\* characters: a letter, a line feed, a full stop, a space
Characters == {"x", "\n", ".", " "}
Texts == UNION {[1..n -> Characters] : n \in 0..MaxText}
\* the indices (from 0) at which '\n\n' and '. ' start
ParagraphBreaks(content) ==
  {i \in 0..(Len(content) - 2) : content[i + 1] = "\n" /\ content[i + 2] = "\n"}
SentenceBreaks(content) ==
  {i \in 0..(Len(content) - 2) : content[i + 1] = "." /\ content[i + 2] = " "}
\* content.lastIndexOf(s, fromIndex), given the indices at which s starts
lastIndexOf(starts, fromIndex) ==
  LET found == {i \in starts : i <= fromIndex}
  IN  IF found = {} THEN -1 ELSE CHOOSE i \in found : \A j \in found : j <= i
\* a test that takes every break after the start of the piece
PastStart(index, currentIndex, maxChunkSize) == index > currentIndex
\* a test that takes every break found, the start of the piece included
FromStart(index, currentIndex, maxChunkSize) == index >= currentIndex
\* index > currentIndex + maxChunkSize * 0.7 (the product in doubles is the
\* exact one for the sizes used here)
PastSeventyPercent(index, currentIndex, maxChunkSize) ==
  10 * index > 10 * currentIndex + 7 * maxChunkSize
\* currentIndex = chunkEnd
NextIndexSkips(chunkEnd) == chunkEnd + 1
NextIndex(chunkEnd) == chunkEnd
\* the while loop: the (currentIndex, chunkEnd) of every chunk pushed
\* chunkEnd at the push of the piece that starts at currentIndex
ChunkEnd(currentIndex, length, paragraphBreaks, sentenceBreaks, maxChunkSize) ==
  LET fullEnd == currentIndex + maxChunkSize
      paragraphBreak == lastIndexOf(paragraphBreaks, fullEnd)
      sentenceBreak == lastIndexOf(sentenceBreaks, fullEnd)
  IN  IF fullEnd < length
      THEN IF PastSeventyPercent(paragraphBreak, currentIndex, maxChunkSize)
           THEN paragraphBreak
           ELSE IF PastSeventyPercent(sentenceBreak, currentIndex, maxChunkSize)
           THEN sentenceBreak + 1
           ELSE fullEnd
      ELSE fullEnd
RECURSIVE ChunkCuts(_, _, _, _, _)
ChunkCuts(currentIndex, length, paragraphBreaks, sentenceBreaks, maxChunkSize) ==
  IF currentIndex < length
  THEN LET chunkEnd == ChunkEnd(currentIndex, length, paragraphBreaks,
                                sentenceBreaks, maxChunkSize)
       IN  <<[from |-> currentIndex, to |-> chunkEnd]>>
           \o ChunkCuts(NextIndex(chunkEnd), length, paragraphBreaks,
                        sentenceBreaks, maxChunkSize)
  ELSE <<>>
\* the cuts of a text of the given length and breaks
Cuts(length, paragraphBreaks, sentenceBreaks, maxChunkSize) ==
  IF length <= maxChunkSize THEN <<[from |-> 0, to |-> length]>>
  ELSE ChunkCuts(0, length, paragraphBreaks, sentenceBreaks, maxChunkSize)
chunkContent(content, maxChunkSize) ==
  IF Len(content) <= maxChunkSize THEN <<content>>
  ELSE LET cuts == ChunkCuts(0, Len(content), ParagraphBreaks(content),
                             SentenceBreaks(content), maxChunkSize)
       IN  [c \in 1..Len(cuts) |-> substring(content, cuts[c].from, cuts[c].to)]

\* a call of chunkContent and what it returned
Chunking(content, maxChunkSize) ==
  [called |-> FALSE, content |-> content, length |-> Len(content),
   paragraphBreaks |-> ParagraphBreaks(content),
   sentenceBreaks |-> SentenceBreaks(content),
   maxChunkSize |-> maxChunkSize, cuts |-> <<>>, chunks |-> <<>>]
InitChunker ==
  \E content \in Texts, maxChunkSize \in 1..MaxSize :
    InitBefore(Chunking(content, maxChunkSize))

ChunkContent ==
  /\ ~chunker.called
  /\ chunker' = [chunker EXCEPT
                   !.called = TRUE,
                   !.cuts = Cuts(chunker.length, chunker.paragraphBreaks,
                                 chunker.sentenceBreaks, chunker.maxChunkSize),
                   !.chunks = chunkContent(chunker.content, chunker.maxChunkSize)]
  /\ UNCHANGED <<appVars, now, scriptProperties, lastOp, job>>

NextChunker == ChunkContent

SpecChunker == InitChunker /\ [][NextChunker]_vars

(* ----------- chunkContent, one iteration of its loop a step ------------ *)
ChunkLoop(content, maxChunkSize) ==
  [op |-> "chunkContent", pc |-> "start", content |-> content,
   maxChunkSize |-> maxChunkSize, currentIndex |-> 0, chunks |-> <<>>]
InitChunkLoop ==
  \E content \in Texts, maxChunkSize \in 1..MaxSize :
    InitBefore(ChunkLoop(content, maxChunkSize))

\* if (content.length <= maxChunkSize) return [content]
ChunkWhole ==
  /\ chunker.pc = "start"
  /\ chunker' = IF Len(chunker.content) <= chunker.maxChunkSize
                  THEN [chunker EXCEPT !.chunks = <<chunker.content>>, !.pc = "done"]
                  ELSE [chunker EXCEPT !.pc = "loop"]
  /\ UNCHANGED <<appVars, now, scriptProperties, lastOp, job>>

\* while (currentIndex < content.length): a piece pushed, or the return
ChunkIteration ==
  /\ chunker.pc = "loop"
  /\ chunker' =
       IF chunker.currentIndex < Len(chunker.content)
         THEN LET chunkEnd == ChunkEnd(chunker.currentIndex, Len(chunker.content),
                                       ParagraphBreaks(chunker.content),
                                       SentenceBreaks(chunker.content),
                                       chunker.maxChunkSize)
              IN  [chunker EXCEPT
                     !.chunks = Append(@, substring(chunker.content,
                                                    chunker.currentIndex, chunkEnd)),
                     !.currentIndex = NextIndex(chunkEnd)]
         ELSE [chunker EXCEPT !.pc = "done"]
  /\ UNCHANGED <<appVars, now, scriptProperties, lastOp, job>>

NextChunkLoop ==
  \/ ChunkWhole
  \/ ChunkIteration
\* the call runs on until it returns
SpecChunkLoop == InitChunkLoop /\ [][NextChunkLoop]_vars /\ WF_vars(NextChunkLoop)

(* ------ chunkContent on texts of 40,000 characters, CHUNK_SIZE a chunk ------ *)
CHUNK_SIZE == 15000
\* indices at which a text may have a paragraph break, a sentence break or
\* neither; no two are neighbours, so every choice is a text
BreakPlaces == {10400, 10501, 14990, 15000, 21002, 25000, 30000, 31503}
\* a text given by its length and the indices at which its breaks start
TextOfLength(length, paragraphBreaks, sentenceBreaks, maxChunkSize) ==
  [called |-> FALSE, length |-> length, paragraphBreaks |-> paragraphBreaks,
   sentenceBreaks |-> sentenceBreaks, maxChunkSize |-> maxChunkSize,
   cuts |-> <<>>]
InitScenario ==
  \E paragraphBreaks \in SUBSET BreakPlaces :
    \E sentenceBreaks \in SUBSET (BreakPlaces \ paragraphBreaks) :
      InitBefore(TextOfLength(40000, paragraphBreaks, sentenceBreaks, CHUNK_SIZE))

ChunkText ==
  /\ ~chunker.called
  /\ chunker' = [chunker EXCEPT
                   !.called = TRUE,
                   !.cuts = Cuts(chunker.length, chunker.paragraphBreaks,
                                 chunker.sentenceBreaks, chunker.maxChunkSize)]
  /\ UNCHANGED <<appVars, now, scriptProperties, lastOp, job>>

NextScenario == ChunkText

SpecScenario == InitScenario /\ [][NextScenario]_vars

(* --------- callLLM, one dispatch attempt or one wait cycle a step -------- *)
MAX_RETRIES == 5
MaxWaitCycles == 2
\* what callZapierWebhook does in one attempt: it returns a text, returns an
\* empty text, throws, throws on a rate limit, or returns the queued marker
WebhookOutcomes == {"result", "empty", "error", "rate_limit", "queued"}
\* options.metadata.mode of the callers
Modes == {"async_workflow", "single_pass"}
LLMCall(mode) ==
  [op |-> "callLLM", pc |-> "loop", mode |-> mode, retries |-> 0,
   outcomes |-> <<>>, taskId |-> NoTask, waitCycles |-> 0, returned |-> "none"]
Returns(call, value) == [call EXCEPT !.pc = "returned", !.returned = value]
\* one pass of the while loop for an outcome of the dispatch
callLLMAttempt(call, outcome, taskId) ==
  LET tried == [call EXCEPT !.outcomes = Append(@, outcome)]
      caught == [tried EXCEPT !.retries = @ + 1]
  IN  CASE outcome \in {"error", "rate_limit"} ->
             IF caught.retries >= MAX_RETRIES THEN Returns(caught, "null")
                                              ELSE caught
        [] call.mode = "async_workflow" /\ outcome = "queued" ->
             Returns([tried EXCEPT !.taskId = taskId], "taskId")
        [] call.mode = "async_workflow" -> Returns(tried, outcome)
        [] outcome = "queued" ->
             [tried EXCEPT !.pc = "waiting", !.taskId = taskId]
        [] outcome = "result" -> Returns(tried, "result")
        [] OTHER ->
             IF caught.retries >= MAX_RETRIES THEN Returns(caught, "null")
                                              ELSE caught

InitRetry ==
  /\ InitApp
  /\ scriptProperties = NoProps
  /\ lastOp = NoOp
  /\ chunker = NoChunking
  /\ \E mode \in Modes : job = LLMCall(mode)

Dispatch(outcome) ==
  /\ job.pc = "loop"
  /\ job.retries < MAX_RETRIES
  /\ job' = callLLMAttempt(job, outcome, nextTask)
  /\ UNCHANGED <<appVars, now, scriptProperties, lastOp, chunker>>

\* one cycle of waitForZapierResult(taskId, pageId, progressFileName, 0): the
\* stored result ends the wait if it is not empty; waitCycles is counted
\* round MaxWaitCycles, no test reading it
WaitCycle ==
  /\ job.pc = "waiting"
  /\ LET check == checkForZapierResult(zapierResult, job.taskId)
     IN  /\ zapierResult' = check.properties
         /\ job' = IF ~check.returned.isNull /\ check.returned.result # EmptyText
                     THEN Returns(job, "result")
                     ELSE [job EXCEPT !.waitCycles = (@ % MaxWaitCycles) + 1]
  /\ UNCHANGED <<control, wf, combined, dispatched, delivered, nextTask, lastReq,
                 response, finalVars, trackerHistory, polled, inv, now,
                 scriptProperties, lastOp, chunker>>

\* a callback for the task of the waiting call is saved for polling by
\* another execution
ResultSaved(result) ==
  /\ job.pc = "waiting"
  /\ zapierResult[job.taskId] = <<>>
  /\ zapierResult' = [zapierResult EXCEPT ![job.taskId] = <<result>>]
  /\ UNCHANGED <<control, wf, combined, dispatched, delivered, nextTask, lastReq,
                 response, finalVars, trackerHistory, polled, inv, now, libVars>>

NextRetry ==
  \/ \E outcome \in WebhookOutcomes : Dispatch(outcome)
  \/ WaitCycle
  \/ \E result \in Results : ResultSaved(result)

SpecRetry == InitRetry /\ [][NextRetry]_vars
\* the execution running callLLM goes on; no callback has to come
SpecRetryFair ==
  /\ SpecRetry
  /\ WF_vars(\E outcome \in WebhookOutcomes : Dispatch(outcome))
  /\ WF_vars(WaitCycle)

(* ---- chunkMermaidSafe (unnamed/part_000), a loop iteration a step; ---- *)
(* ---- MAX and TARGET scaled down from 2000 and 1890, the margin of  ---- *)
(* ---- three characters between them kept                            ---- *)
MAX == 6
TARGET == 3
\* the 10 of cut >= i + 10
MinCut == 1
MaxInput == 8
InputCharacters == {"x", "\n", "\r"}
Inputs == UNION {[1..n -> InputCharacters] : n \in 0..MaxInput}
\* s.replace(/\r\n/g, "\n")
RECURSIVE replaceCRLF(_)
replaceCRLF(s) ==
  IF s = <<>> THEN <<>>
  ELSE IF Len(s) >= 2 /\ s[1] = "\r" /\ s[2] = "\n"
         THEN <<"\n">> \o replaceCRLF(SubSeq(s, 3, Len(s)))
         ELSE <<s[1]>> \o replaceCRLF(Tail(s))
Newlines(s) == {j \in 0..(Len(s) - 1) : s[j + 1] = "\n"}
slice(s, from, to) == SubSeq(s, from + 1, to)
endsWithNewline(part) == part # <<>> /\ part[Len(part)] = "\n"
startsWithNewline(part) == part # <<>> /\ part[1] = "\n"
\* the end of the piece that starts at i
PieceEnd(s, i) ==
  LET end == IF i + TARGET < Len(s) THEN i + TARGET ELSE Len(s)
      cut == lastIndexOf(Newlines(s), end)
  IN  IF end < Len(s) /\ cut >= i + MinCut THEN cut + 1 ELSE end
\* a post-pass that pads the end of a piece only
PaddedAtEnd(part, k, length) ==
  IF k < length - 1 /\ ~endsWithNewline(part) THEN Append(part, "\n") ELSE part
\* parts[k] after the two padding statements of the post-pass
Padded(part, k, length) ==
  LET ended == IF k < length - 1 /\ ~endsWithNewline(part)
                 THEN Append(part, "\n") ELSE part
  IN  IF k > 0 /\ ~startsWithNewline(ended) THEN <<"\n">> \o ended ELSE ended
\* part.match(new RegExp(`.{1,${MAX}}`, "gs")): slices of MAX characters
RECURSIVE Segments(_)
Segments(part) ==
  IF Len(part) <= MAX THEN <<part>>
  ELSE <<SubSeq(part, 1, MAX)>> \o Segments(SubSeq(part, MAX + 1, Len(part)))
\* parts.splice(k, 1, ...segs)
splice(parts, k, segs) ==
  SubSeq(parts, 1, k) \o segs \o SubSeq(parts, k + 2, Len(parts))

MermaidCall(input) ==
  [op |-> "chunkMermaidSafe", pc |-> "start", input |-> input, s |-> <<>>,
   i |-> 0, parts |-> <<>>, k |-> 0, resplit |-> FALSE]
InitMermaid == \E input \in Inputs : InitBefore(MermaidCall(input))

MermaidNormalise ==
  /\ chunker.pc = "start"
  /\ chunker' = [chunker EXCEPT !.s = replaceCRLF(chunker.input), !.pc = "split"]
  /\ UNCHANGED <<appVars, now, scriptProperties, lastOp, job>>

\* while (i < s.length): one piece pushed
MermaidSplit ==
  /\ chunker.pc = "split"
  /\ chunker' =
       IF chunker.i < Len(chunker.s)
         THEN LET end == PieceEnd(chunker.s, chunker.i)
              IN  [chunker EXCEPT
                     !.parts = Append(@, slice(chunker.s, chunker.i, end)),
                     !.i = end]
         ELSE [chunker EXCEPT !.pc = "pad"]
  /\ UNCHANGED <<appVars, now, scriptProperties, lastOp, job>>

\* for (let k = 0; k < parts.length; k++): parts[k] padded and, if it passes
\* MAX, replaced by its segments, which the next iteration takes up again
MermaidPad ==
  /\ chunker.pc = "pad"
  /\ chunker' =
       IF chunker.k < Len(chunker.parts)
         THEN LET part == Padded(chunker.parts[chunker.k + 1], chunker.k,
                                 Len(chunker.parts))
              IN  IF Len(part) > MAX
                    THEN [chunker EXCEPT
                            !.parts = splice(@, chunker.k, Segments(part)),
                            !.resplit = TRUE]
                    ELSE [chunker EXCEPT !.parts[chunker.k + 1] = part,
                                         !.k = @ + 1]
         ELSE [chunker EXCEPT !.pc = "done"]
  /\ UNCHANGED <<appVars, now, scriptProperties, lastOp, job>>

NextMermaid ==
  \/ MermaidNormalise
  \/ MermaidSplit
  \/ MermaidPad
\* the call runs on until it returns
SpecMermaid == InitMermaid /\ [][NextMermaid]_vars /\ WF_vars(NextMermaid)

(* ---- a DocumentStructure built by addSubBlock calls, the status ---- *)
(* ---- control initialised from it and its items completed         ---- *)
MaxBlocks == 3
\* the clock after the calls of one run: the initialisation and one call
\* per item
IndexClock == MaxBlocks + 3
IndexedIds == {<<p, k>> : p \in Pages, k \in 0..(MaxBlocks + 1)}
\* new DocumentStructure(pageId, pageTitle)
NewDocument(pageId) ==
  [op |-> "index", pageId |-> pageId, index |-> DocumentStructure(pageId)]
InitIndex ==
  /\ InitApp
  /\ scriptProperties = NoProps
  /\ lastOp = NoOp
  /\ chunker = NoChunking
  /\ \E pageId \in Pages : job = NewDocument(pageId)

\* doc.addSubBlock(url, type, title)
AddSubBlock ==
  /\ Len(job.index.subBlocks) < MaxBlocks
  /\ job' = [job EXCEPT !.index = addSubBlock(job.index, job.pageId)]
  /\ UNCHANGED <<appVars, now, scriptProperties, lastOp, chunker>>

\* initializePageStatusControl(pageId, doc.index)
InitializeFromIndex ==
  /\ now < IndexClock
  /\ control' = [control EXCEPT ![job.pageId] =
       initializePageStatusControl(job.pageId, job.index, now)]
  /\ trueReturns' = [trueReturns EXCEPT ![job.pageId] = 0]
  /\ onlyCompleted' = [onlyCompleted EXCEPT ![job.pageId] = TRUE]
  /\ lastCall' = [NoCall EXCEPT !.op = "init", !.pageId = job.pageId]
  /\ now' = now + 1
  /\ UNCHANGED <<workflowVars, finalVars, response, inv, libVars, polled>>

\* updateItemStatusInControl(pageId, itemId, contentType, taskId, 'completed',
\* processedFile), as the result handler calls it
CompleteIndexed(itemId, contentType) ==
  /\ now < IndexClock
  /\ LET ret == updateItemStatusInControl(control[job.pageId], itemId, contentType,
                                          1, "completed", <<itemId, now>>, now)
     IN  /\ control' = [control EXCEPT ![job.pageId] = ret.statusControl]
         /\ TrackerHistory(job.pageId, itemId, contentType, "completed", ret)
  /\ now' = now + 1
  /\ UNCHANGED <<workflowVars, finalVars, response, inv, libVars, polled>>

NextIndexed ==
  \/ AddSubBlock
  \/ InitializeFromIndex
  \/ \E itemId \in IndexedIds, contentType \in ContentTypes :
       CompleteIndexed(itemId, contentType)
SpecIndex == InitIndex /\ [][NextIndexed]_vars

(* ---------------------- claims about the tracker ---------------------- *)
\* C1 (as claimed): for one manifest, over calls that all carry status
\* 'completed', at most one call returns allCompleted = true.
C1_SingleTrigger ==
  \A p \in Pages : onlyCompleted[p] => trueReturns[p] <= 1

\* C3: a call with status 'completed' for an item whose status already is
\* 'completed' (a second call for the same item) leaves completedItems and
\* pendingItems as the first call left them.
C3_CompletionIdempotent ==
  [][ (/\ lastCall'.op = "update"
       /\ lastCall'.status = "completed"
       /\ lastCall'.prevStatus = "completed")
      => (/\ control'[lastCall'.pageId].tracking.completedItems
               = control[lastCall'.pageId].tracking.completedItems
          /\ control'[lastCall'.pageId].tracking.pendingItems
               = control[lastCall'.pageId].tracking.pendingItems) ]_vars

\* C3 witness: the last call marked an already completed item completed again,
\* right after a call that completed the same item.
C3_Witness ==
  /\ lastCall.op = "update"
  /\ lastCall.status = "completed"
  /\ lastCall.prevStatus = "completed"
  /\ control[lastCall.pageId].tracking.completedItems >= 1

\* C4 (as claimed): in every saved status control completedItems is the number
\* of items whose status is 'completed', and completedItems + pendingItems is
\* totalItems.
C4_CountInvariant ==
  \A p \in Pages : control[p].exists =>
    /\ control[p].tracking.completedItems = CompletedCount(control[p])
    /\ control[p].tracking.completedItems + control[p].tracking.pendingItems
         = control[p].tracking.totalItems


(* ------------------------ claims about the web app -------------------- *)
\* C5: over one life of a document (from its Start on, through every callback
\* and duplicate callback) at most one POST goes to the notification URL
C5_OneNotification == \A p \in Pages : posts[p] <= 1

AllItemsCompleted(statusControl) ==
  /\ statusControl.tracking.mainPage.status = "completed"
  /\ \A id \in DOMAIN statusControl.tracking.subBlocks :
       statusControl.tracking.subBlocks[id].status = "completed"

\* what each item contributed: the result text of its callback, main item
\* first, then the sub-items in manifest order
Contributions(statusControl, drive) ==
  LET subBlocks == statusControl.tracking.subBlocks
      order == SubBlockOrder(subBlocks)
      Given(rec) == [itemId |-> rec.itemId, content |-> drive[rec.processedFile]]
  IN <<Given(statusControl.tracking.mainPage)>>
       \o [i \in 1..Len(order) |-> Given(subBlocks[order[i]])]

\* C6: whatever the arrival order of the item callbacks, the final processing
\* has run exactly when the last item has completed, and the final summary then
\* holds the result of every item, the main item first
C6_OrderIndependentFanIn ==
  \A p \in Pages :
    control[p].exists =>
      /\ (finalRuns[p] >= 1) = AllItemsCompleted(control[p])
      /\ finalRuns[p] >= 1 => finalSummary[p] = Contributions(control[p], files)

\* C7: no workflow is still waiting for a task whose callback, carrying a
\* result, has been delivered through doPost
C7_WorkflowProgress ==
  \A p \in Pages :
    (wf[p].exists /\ wf[p].step = "waiting_for_llm" /\ wf[p].taskId.kind = "task")
      => wf[p].taskId.id \notin delivered

NotFoundStyle(resp) == resp.status = "not_found"

\* C10: a result callback whose task id is the active task of no stored workflow
\* state is answered 'not found' and leaves every workflow state as it was
C10_UnknownTask ==
  [][(now' # now /\ lastReq'.route = "llm_result" /\ ~lastReq'.matched)
       => (NotFoundStyle(response') /\ wf' = wf)]_vars

\* the frame part of C10 alone
C10_WorkflowStatesKept ==
  [][(now' # now /\ lastReq'.route = "llm_result" /\ ~lastReq'.matched)
       => wf' = wf]_vars


(* ------------------------ claims about the workflow ------------------- *)
PageDispatches(p) == SelectSeq(dispatched, LAMBDA d : d.pageId = p)

\* the dispatches of the page's current run: from its last Start on
CurrentRun(p) ==
  LET ds == PageDispatches(p)
      starts == {i \in 1..Len(ds) : ds[i].byStart}
  IN IF starts = {} THEN ds
     ELSE SubSeq(ds, CHOOSE i \in starts : \A j \in starts : j <= i, Len(ds))

InOrderOneInFlight(ds) ==
  /\ \A i \in 1..Len(ds) : ds[i].chunkIndex = i - 1
  /\ Cardinality({i \in 1..Len(ds) : ds[i].taskId \notin delivered}) <= 1

\* C8 as stated: over all the dispatches of a document, the chunk indexes are
\* 0, 1, ... in order and at most one dispatched chunk awaits its callback
C8_DispatchOrder == \A p \in Pages : InOrderOneInFlight(PageDispatches(p))

\* a chunk after the first is dispatched only by the invocation that handles
\* the callback of the chunk before it
DispatchOnlyOnCallback ==
  dispatched' # dispatched =>
    LET d == dispatched'[Len(dispatched')]
    IN \/ d.byStart /\ d.chunkIndex = 0 /\ lastReq'.route = "regular"
       \/ /\ ~d.byStart
          /\ lastReq'.route = "llm_result"
          /\ wf[d.pageId].exists
          /\ wf[d.pageId].taskId = QueuedTask(lastReq'.taskId)
          /\ wf[d.pageId].chunking.currentChunkIndex = d.chunkIndex - 1

\* C8 within one run of a document (from a Start to its next Start): chunk i+1
\* is dispatched only while the callback of chunk i is handled, the indexes
\* of the run are 0, 1, ... in order, and at most one chunk of it is in flight
C8_DispatchOrderWithinRun ==
  /\ [](\A p \in Pages : InOrderOneInFlight(CurrentRun(p)))
  /\ [][DispatchOnlyOnCallback]_vars

C8_Witness == \E p \in Pages : Len(CurrentRun(p)) >= 2

KeepsProgress(before, after) ==
  /\ after.chunking.currentChunkIndex >= before.chunking.currentChunkIndex
  /\ \A i \in DOMAIN before.chunking.chunkResults :
       /\ i \in DOMAIN after.chunking.chunkResults
       /\ after.chunking.chunkResults[i] = before.chunking.chunkResults[i]

BothEnded(p) ==
  /\ \A i \in Invocations : inv[i].pc = "done" /\ inv[i].pageId = p
  /\ inv["A"].itemId # inv["B"].itemId
  /\ control[p].exists
  /\ \A i \in Invocations :
       /\ inv[i].statusControl.exists
       /\ inv[i].statusControl.initialized = control[p].initialized
       /\ ItemBranch(control[p], inv[i].itemId, inv[i].contentType) # "none"

\* C2: when two invocations for two different items of a document have ended,
\* in whatever order their loads and saves fell, both completions are counted
\* and exactly one of the two has run the final processing
C2_InterleavedFanIn ==
  \A p \in Pages :
    BothEnded(p) =>
      /\ control[p].tracking.completedItems = 2
      /\ inv["A"].ranFinal # inv["B"].ranFinal


(* ------------------- claims about duplicate callbacks ----------------- *)
\* the stored record of an item of a status control
ItemOf(statusControl, itemId) ==
  IF statusControl.tracking.mainPage.itemId = itemId
    THEN statusControl.tracking.mainPage
    ELSE statusControl.tracking.subBlocks[itemId]

\* the callback just handled was for an item that was completed already, in a
\* document whose final processing had run
DuplicateAfterFinal ==
  /\ now' # now
  /\ lastReq'.route = "llm_result"
  /\ lastReq'.pageId \in Pages
  /\ control[lastReq'.pageId].exists
  /\ control[lastReq'.pageId].finalProcessing.finalSummaryCreated
  /\ ItemBranch(control[lastReq'.pageId], lastReq'.itemId, lastReq'.contentType) # "none"
  /\ PreviousStatus(control[lastReq'.pageId], lastReq'.itemId, lastReq'.contentType)
       = "completed"

\* C11: a second callback for a completed item of a finalized document is
\* answered without an error, runs neither the final processing nor the
\* notification again, and leaves the item's record and the counters as they were
C11_DuplicateNoOp ==
  [][DuplicateAfterFinal =>
       LET p == lastReq'.pageId
       IN /\ response'.status # "error"
          /\ finalRuns'[p] = finalRuns[p]
          /\ posts'[p] = posts[p]
          /\ ItemOf(control'[p], lastReq'.itemId) = ItemOf(control[p], lastReq'.itemId)
          /\ control'[p].tracking.completedItems = control[p].tracking.completedItems
          /\ control'[p].tracking.pendingItems = control[p].tracking.pendingItems]_vars

\* the part of C11 that the previousStatus comparison gives: the counters and
\* completedAt of the item stay
C11_CountersKept ==
  [][DuplicateAfterFinal =>
       LET p == lastReq'.pageId
       IN /\ response'.status # "error"
          /\ ItemOf(control'[p], lastReq'.itemId).completedAt
               = ItemOf(control[p], lastReq'.itemId).completedAt
          /\ control'[p].tracking.completedItems = control[p].tracking.completedItems
          /\ control'[p].tracking.pendingItems = control[p].tracking.pendingItems]_vars


(* --------------------- claims about empty results --------------------- *)
\* the workflow of page p went on from the chunk it waited for: the chunk has
\* a recorded result and the next chunk is current, or, after the last chunk,
\* the sections are combined with the placeholder for this chunk
AdvancedWithPlaceholder(p) ==
  LET chunking == wf[p].chunking
  IN IF chunking.currentChunkIndex + 1 < chunking.totalChunks
       THEN /\ wf'[p].exists
            /\ wf'[p].chunking.currentChunkIndex = chunking.currentChunkIndex + 1
            /\ chunking.currentChunkIndex \in DOMAIN wf'[p].chunking.chunkResults
       ELSE /\ ~wf'[p].exists
            /\ Len(combined'[p]) = chunking.totalChunks
            /\ combined'[p][chunking.totalChunks].text = Placeholder

\* doPost has just handled a callback body for the task a stored workflow waits
\* for, with an empty result
EmptyResultForActiveTask ==
  /\ now' # now
  /\ lastReq'.taskId # NoTask
  /\ lastReq'.result = EmptyText
  /\ lastReq'.matched

\* C12: a callback for the active task with an empty result is routed to the
\* result handler, raises no error, and the workflow goes on as for a non-empty
\* result, the chunk being rendered as the placeholder
C12_EmptyResultTolerated ==
  [][EmptyResultForActiveTask =>
       /\ lastReq'.route = "llm_result"
       /\ response'.status # "error"
       /\ AdvancedWithPlaceholder(findPageIdByTaskId(wf, lastReq'.taskId))]_vars

\* C12 on the result route alone: a body of tags, which doPost sends to the
\* result handler whatever its result
C12_EmptyResultOnResultRoute ==
  [][(EmptyResultForActiveTask /\ lastReq'.route = "llm_result") =>
       AdvancedWithPlaceholder(findPageIdByTaskId(wf, lastReq'.taskId))]_vars


(* ---------------------- claims about the storage ---------------------- *)
\* a load of the path that the call before it saved, on a store that was empty
LoadAfterSaveOnEmpty ==
  /\ lastOp.op = "save" /\ lastOp.success /\ lastOp.onEmpty
  /\ lastOp'.op = "load" /\ lastOp'.path = lastOp.path

\* C13: loadFromStorage(path) directly after a successful
\* saveToStorage(path, p) on an empty store returns content equal to p,
\* character for character, whether p fits one property or is chunked.
C13_RoundTrip ==
  [][LoadAfterSaveOnEmpty =>
       (~lastOp'.isNull /\ lastOp'.content = lastOp.content)]_vars

\* a chunked payload of three chunks has been saved alone and loaded back
C13_Witness ==
  /\ lastOp.op = "load" /\ ~lastOp.isNull
  /\ Len(lastOp.content) > 2 * MaxChunkSize
  /\ DOMAIN scriptProperties =
       {MetaKey(lastOp.path)} \cup {ChunkKey(lastOp.path, i) : i \in 0..2}

\* the properties that belong to a path
KeysOf(properties, path) == {k \in DOMAIN properties : k.path = path}
\* the keys one save of the content writes
KeysWritten(path, content) ==
  LET writes == SaveWrites(path, content, 0)
  IN  {writes[w].key : w \in 1..Len(writes)}
\* a successful save of a path that the call before it saved too
SaveAfterSave ==
  /\ lastOp.op = "save" /\ lastOp.success
  /\ lastOp'.op = "save" /\ lastOp'.success /\ lastOp'.path = lastOp.path

\* C14: after saveToStorage(k, p1) followed by saveToStorage(k, p2),
\* loadFromStorage(k) returns p2 and no property of k that the first save
\* wrote and the second did not rewrite remains in the store.
C14_Overwrite ==
  [][SaveAfterSave =>
       LET k == lastOp'.path
           loaded == loadFromStorage(scriptProperties', k)
       IN  /\ ~loaded.isNull
           /\ loaded.content = lastOp'.content
           /\ KeysOf(scriptProperties', k) \subseteq KeysWritten(k, lastOp'.content)]_vars

\* the second payload alone is loaded back after the second save
C14_SecondPayloadLoaded ==
  [][SaveAfterSave =>
       loadFromStorage(scriptProperties', lastOp'.path).content = lastOp'.content]_vars

\* a load of a chunked entry of which a slot below chunkCount is absent
LoadWithMissingSlot ==
  /\ lastOp'.op = "load"
  /\ ~hasProperty(scriptProperties, SingleKey(lastOp'.path))
  /\ hasProperty(scriptProperties, MetaKey(lastOp'.path))
  /\ \E i \in 0..(scriptProperties[MetaKey(lastOp'.path)].metadata.chunkCount - 1) :
        ~hasProperty(scriptProperties, ChunkKey(lastOp'.path, i))

\* C15: when the metadata of a chunked entry says chunkCount = n and a slot
\* i < n is absent, loadFromStorage reports a failure; it never returns
\* content built from the remaining slots.
C15_ReconstructionError ==
  [][LoadWithMissingSlot => (lastOp'.isNull \/ ~lastOp'.success)]_vars

\* a load of a path while a save of it is between two property writes, or
\* after a save of it that threw part-way
LoadAmidSave ==
  /\ lastOp'.op = "load"
  /\ \/ job.op = "save" /\ job.path = lastOp'.path
     \/ lastOp.op = "save" /\ ~lastOp.success /\ lastOp.path = lastOp'.path

\* C16: a loadFromStorage(k) that runs between the property writes of a
\* saveToStorage(k, p), or after a save that failed part-way, returns
\* not-found or a payload some save wrote in full; never a mixture of slots
\* of two payloads or a part of one. Every payload a save is given is in
\* Payloads, and no mixture or part of them is.
C16_NoPartialVisibility ==
  [][LoadAmidSave => (lastOp'.isNull \/ lastOp'.content \in Payloads)]_vars

\* ceil(length / maxChunkSize)
CeilDiv(length, maxChunkSize) == (length + maxChunkSize - 1) \div maxChunkSize
\* a save on a store that held nothing: what the store holds is what it wrote
SaveOnEmpty ==
  /\ lastOp'.op = "save" /\ lastOp'.success /\ lastOp'.onEmpty
  /\ now' = now + 1
\* the store holds the payload as ceil(len / maxChunkSize) slots that follow
\* one another in the payload, and the metadata that counts them
ChunkedSlots(properties, path, content) ==
  LET n == CeilDiv(Len(content), MaxChunkSize)
  IN  /\ DOMAIN properties = {MetaKey(path)} \cup {ChunkKey(path, i) : i \in 0..(n - 1)}
      /\ properties[MetaKey(path)].metadata.chunkCount = n
      /\ properties[MetaKey(path)].metadata.chunked
      /\ \A i \in 0..(n - 1) :
            LET from == i * MaxChunkSize
                to == IF from + MaxChunkSize <= Len(content)
                      THEN from + MaxChunkSize ELSE Len(content)
            IN  /\ properties[ChunkKey(path, i)] = SubSeq(content, from + 1, to)
                /\ Len(properties[ChunkKey(path, i)]) <= MaxChunkSize
SingleSlot(properties, path, content) ==
  /\ DOMAIN properties = {SingleKey(path)}
  /\ properties[SingleKey(path)].content = content
  /\ ~properties[SingleKey(path)].metadata.chunked

\* C17: saveToStorage of a payload longer than maxChunkSize writes exactly
\* ceil(len / maxChunkSize) contiguous, non-overlapping slots of at most
\* maxChunkSize characters and records that number as chunkCount (600,000
\* characters with a 450,000 ceiling give 2); a payload of at most
\* maxChunkSize characters is written as one unchunked slot.
C17_SlotCount ==
  [][SaveOnEmpty =>
       /\ Len(ChunkBounds(0, 600000, 450000)) = 2
       /\ IF Len(lastOp'.content) > MaxChunkSize
          THEN ChunkedSlots(scriptProperties', lastOp'.path, lastOp'.content)
          ELSE SingleSlot(scriptProperties', lastOp'.path, lastOp'.content)]_vars

\* a payload of three slots, the last one short, has been saved alone
C17_Witness ==
  /\ lastOp.op = "save" /\ lastOp.onEmpty
  /\ Len(lastOp.content) = 2 * MaxChunkSize + 1
  /\ hasProperty(scriptProperties, ChunkKey(lastOp.path, 2))

(* ---------------------- claims about chunkContent --------------------- *)
RECURSIVE Concat(_)
Concat(pieces) ==
  IF pieces = <<>> THEN <<>> ELSE Head(pieces) \o Concat(Tail(pieces))

\* C18: for every string s and every positive maxChunkSize, the pieces that
\* chunkContent(s, maxChunkSize) returns, concatenated in order, equal s.
C18_ChunkRoundTrip ==
  chunker.called => Concat(chunker.chunks) = chunker.content

\* a text has been cut early at a paragraph break and the rest follows
C18_Witness ==
  /\ chunker.called
  /\ Len(chunker.chunks) >= 2
  /\ chunker.cuts[1].to \in chunker.paragraphBreaks
  /\ chunker.cuts[1].to < chunker.maxChunkSize

\* C19: for every string s and positive maxChunkSize, every piece that
\* chunkContent(s, maxChunkSize) returns has at most maxChunkSize characters,
\* whether a paragraph break, a sentence end or a hard cut ended it.
C19_ChunkSizeBound ==
  chunker.called =>
    \A c \in 1..Len(chunker.chunks) : Len(chunker.chunks[c]) <= chunker.maxChunkSize

\* the pieces follow one another from the start of the text to its end
CoversText(cuts, length) ==
  /\ cuts # <<>>
  /\ cuts[1].from = 0
  /\ \A c \in 1..(Len(cuts) - 1) : cuts[c + 1].from = cuts[c].to
  /\ cuts[Len(cuts)].to >= length
\* the length of content.substring(from, to)
PieceLength(cut, length) ==
  (IF cut.to <= length THEN cut.to ELSE length) - cut.from

\* C20: for every text of 40,000 characters and maxChunkSize = 15,000,
\* wherever its paragraph and sentence breaks fall, chunkContent returns
\* exactly 3 chunks of at most 15,000 characters each, whose concatenation
\* equals the input.
C20_ScenarioB ==
  chunker.called =>
    /\ Len(chunker.cuts) = 3
    /\ \A c \in 1..Len(chunker.cuts) :
          PieceLength(chunker.cuts[c], chunker.length) <= CHUNK_SIZE
    /\ CoversText(chunker.cuts, chunker.length)

\* each part of the scenario alone
C20_ThreeChunks == chunker.called => Len(chunker.cuts) = 3
C20_PiecesWithinSize ==
  chunker.called =>
    \A c \in 1..Len(chunker.cuts) :
      PieceLength(chunker.cuts[c], chunker.length) <= CHUNK_SIZE
C20_PiecesCoverText ==
  chunker.called => CoversText(chunker.cuts, chunker.length)

(* ------------------ claims about the final notification ---------------- *)
\* createFinalSummaryAndSendWebhook ran for the page and its POST returned a
\* status outside 2xx or threw
NotificationFailed(p) ==
  /\ finalRuns'[p] = finalRuns[p] + 1
  /\ finalResult'.pageId = p
  /\ ~finalResult'.webhookSent
\* the summary file is kept and named in the saved status control, and the
\* function returns success with webhookSent = false
SummaryKept(p) ==
  /\ finalSummary'[p] = createCombinedSummaryContent(control'[p], files')
  /\ finalResult'.success
  /\ control'[p].finalProcessing.finalSummaryCreated
  /\ control'[p].finalProcessing.finalSummaryFile = finalResult'.finalSummaryFile

C22_DispatchFailureEndsFailed ==
  \A p \in Pages :
    (wf[p].exists /\ wf[p].taskId = NullTask) => wf[p].step # "waiting_for_llm"

\* the same for a dispatch made while a callback is processed
C22_FailureInCallbackEndsFailed ==
  \A p \in Pages :
    (/\ wf[p].exists /\ wf[p].taskId = NullTask
     /\ wf[p].chunking.currentChunkIndex > 0) => wf[p].step # "waiting_for_llm"

\* C23: when the dispatch returns an immediate result string instead of a
\* queued task id, the workflow treats the chunk as complete and does not
\* persist the result string as the active task id while waiting for a
\* callback.
C23_ImmediateResultSkipsSuspension ==
  \A p \in Pages :
    (wf[p].exists /\ wf[p].step = "waiting_for_llm") => wf[p].taskId # ImmediateText

MaxTotalSize == 6
\* the characters of payload that the slots of a store hold
RECURSIVE SizeOfSlots(_, _)
SizeOfSlots(properties, keys) ==
  IF keys = {} THEN 0
  ELSE LET key == CHOOSE k \in keys : TRUE
           size == CASE key.slot = "single" -> Len(properties[key].content)
                     [] key.slot = "chunk" -> Len(properties[key])
                     [] OTHER -> 0
       IN  size + SizeOfSlots(properties, keys \ {key})
StoredSize(properties) == SizeOfSlots(properties, DOMAIN properties)
\* a save whose payload, with what the other paths already hold, is over the
\* budget
SaveOverBudget ==
  /\ lastOp'.op = "save"
  /\ now' = now + 1
  /\ SizeOfSlots(scriptProperties, DOMAIN scriptProperties \ KeysOf(scriptProperties, lastOp'.path))
       + Len(lastOp'.content) > MaxTotalSize

\* C25: a saveToStorage whose payload, together with the entries already
\* stored, would exceed the total-byte budget (maxTotalSize) fails with an
\* error result instead of writing the slots.
C25_QuotaExceeded ==
  [][SaveOverBudget => (~lastOp'.success /\ scriptProperties' = scriptProperties)]_vars

\* C25, seen from the store: the slots never hold more than the budget
C25_WithinBudget == StoredSize(scriptProperties) <= MaxTotalSize

(* ---------------- claims about the polling of results ------------------ *)
\* the last doPost routed to the result handler a callback of task t, with a
\* result, that belongs to no workflow state
UnknownCallback(t) ==
  /\ lastReq.route = "llm_result"
  /\ lastReq.taskId = t
  /\ lastReq.result # EmptyText
  /\ ~lastReq.matched

\* C26: after the result-callback handler processes a callback whose taskId
\* belongs to no workflow state, checkForZapierResult(taskId) returns that
\* callback's result text, and a second checkForZapierResult(taskId) returns
\* null (the stored result is consumed exactly once).
C26_PollingHandOff ==
  \A t \in TaskIds :
    UnknownCallback(t) =>
      /\ Len(polled[t]) >= 1 =>
            polled[t][1] = [isNull |-> FALSE, result |-> lastReq.result]
      /\ Len(polled[t]) >= 2 => polled[t][2].isNull

\* the callback of an unknown task has been polled for twice
C26_Witness ==
  \E t \in TaskIds : UnknownCallback(t) /\ Len(polled[t]) = 2

(* ------------- claims about chunks and the completion of items --------- *)
\* doPost has just handled the callback, with the tracking fields its dispatch
\* carried, of a chunk of page p that is not the last one, the main item of p
\* not being completed yet
NonFinalChunkCallback(p) ==
  /\ now' # now
  /\ lastReq'.route = "llm_result"
  /\ lastReq'.result # EmptyText
  /\ lastReq'.matched
  /\ findPageIdByTaskId(wf, lastReq'.taskId) = p
  /\ lastReq'.pageId = p
  /\ lastReq'.itemId = MainId(p)
  /\ lastReq'.contentType = "main_page"
  /\ wf[p].chunking.currentChunkIndex + 1 < wf[p].chunking.totalChunks
  /\ control[p].exists
  /\ PreviousStatus(control[p], MainId(p), "main_page") # "completed"

\* C27: an item is recorded as completed in the page status control only by
\* the callback of that item's final chunk, after its chunk results were
\* combined; a callback for a non-final chunk of a multi-chunk item leaves the
\* item not completed and never makes the fan-in gate fire.
C27_CompletionFollowsCombination ==
  [][\A p \in Pages :
       NonFinalChunkCallback(p) =>
         /\ PreviousStatus(control'[p], MainId(p), "main_page") # "completed"
         /\ finalRuns'[p] = finalRuns[p]]_vars

\* C27, the gate alone: the callback of a non-final chunk does not run the
\* final processing
C27_NonFinalChunkKeepsGateShut ==
  [][\A p \in Pages : NonFinalChunkCallback(p) => finalRuns'[p] = finalRuns[p]]_vars

(* ------------ claims about concurrent executions of a workflow --------- *)
\* the task id of the chunk in flight for page p: the one of its last
\* dispatch, when that dispatch is for the chunk the stored state is at
InFlight(p) ==
  LET ds == PageDispatches(p)
  IN IF wf[p].exists /\ ds # <<>>
          /\ ds[Len(ds)].chunkIndex = wf[p].chunking.currentChunkIndex
       THEN ds[Len(ds)].taskId
       ELSE NoTask
\* an execution has just begun to handle a result callback
CallbackBegun == now' # now /\ lastReq'.route = "llm_result"


\* the callback just begun carries the task id of a chunk of page p before the
\* one the stored state of p is at
EarlierChunkCallback(p) ==
  /\ CallbackBegun
  /\ wf[p].exists
  /\ \E k \in 1..Len(dispatched) :
       /\ dispatched[k].pageId = p
       /\ dispatched[k].taskId = lastReq'.taskId
       /\ dispatched[k].chunkIndex < wf[p].chunking.currentChunkIndex

C28_EarlierChunkCallbackIgnored ==
  [][\A p \in Pages : EarlierChunkCallback(p) => wf'[p] = wf[p]]_vars

\* the task id of a callback is one that another execution got from callLLM
\* and has not saved yet
DispatchedNotSaved(taskId) ==
  \E j \in Invocations :
    /\ inv[j].pc = "called"
    /\ inv[j].state.taskId = QueuedTask(taskId)

\* C29: whenever a chunk has been dispatched and its callback can arrive (in a
\* separate execution), the persisted workflow state of the document already
\* holds that dispatch's task id, so the callback is never classified as
\* unknown because the dispatching execution had not yet saved the id.
C29_CallbackMatchable ==
  [][(CallbackBegun /\ DispatchedNotSaved(lastReq'.taskId)) => lastReq'.matched]_vars

\* C29, seen from the store: the task id callLLM returned is in the stored state
C29_TaskIdSavedWithDispatch ==
  \A i \in Invocations :
    (inv[i].pc = "called" /\ inv[i].state.taskId.kind = "task") =>
      (wf[inv[i].pageId].exists /\ wf[inv[i].pageId].taskId = inv[i].state.taskId)

(* ------------- claims about the end of a workflow state ---------------- *)
\* an execution that worked on page p has just ended
Ended(p) ==
  \E i \in Invocations :
    inv'[i] # inv[i] /\ inv'[i].pc = "done" /\ inv'[i].pageId = p
\* the page whose workflow the request just handled is about: the page of a
\* trigger, the page that waits for the task of a callback
PageOf(req) ==
  IF req.route = "regular" THEN req.pageId
  ELSE IF req.matched THEN findPageIdByTaskId(wf, req.taskId)
  ELSE NoPage
\* Done: the callback of the last chunk of page p came back and was combined
Done(p) ==
  /\ Ended(p)
  /\ now' # now
  /\ lastReq'.route = "llm_result"
  /\ PageOf(lastReq') = p
  /\ wf[p].chunking.currentChunkIndex + 1 >= wf[p].chunking.totalChunks
  /\ response'.status = "success"
\* Failed: an error was raised while page p was started or resumed
Failed(p) ==
  /\ Ended(p)
  /\ response'.status = "error"

\* C30: after the final chunk's callback has been combined (Done), and after
\* any error raised while starting or resuming a document (Failed), no
\* WORKFLOW_STATE record remains for that document, so findPageIdByTaskId can
\* no longer match any of its task ids.
C30_StateRemovedAtEnd ==
  [][\A p \in Pages :
       (Done(p) \/ Failed(p)) =>
         /\ ~wf'[p].exists
         /\ \A t \in TaskIds : findPageIdByTaskId(wf', t) # p]_vars

\* the two chunks of a page came back and were combined, and its state is gone
C30_Witness ==
  \E i \in Invocations, p \in Pages :
    /\ inv[i].pc = "done" /\ inv[i].pageId = p /\ inv[i].taskId = lastReq.taskId
    /\ lastReq.route = "llm_result" /\ lastReq.matched
    /\ response.message = "Workflow resumed and completed"
    /\ Len(combined[p]) = 2
    /\ \A k \in 1..2 : combined[p][k].text # Placeholder
    /\ Len(PageDispatches(p)) = 2
    /\ ~wf[p].exists

\* an error was raised while a page that waited for a task was resumed
C30_FailedWitness ==
  \E i \in Invocations, p \in Pages :
    /\ inv[i].pc = "done" /\ inv[i].pageId = p /\ inv[i].taskId = lastReq.taskId
    /\ lastReq.route = "llm_result" /\ lastReq.matched
    /\ response = [status |-> "error", message |-> "Error resuming workflow"]
    /\ ~wf[p].exists

(* ---------------- claims about combineChunkResults --------------------- *)
\* the sections are one per chunk, in the order of the chunks, a chunk
\* without recorded result being the placeholder
SectionsInOrder(sections) ==
  \A i \in 1..Len(sections) :
    /\ sections[i].chunk = i
    /\ sections[i].of = Len(sections)
    /\ sections[i].text # EmptyText

\* C31: combineChunkResults emits exactly totalChunks sections in increasing
\* chunk index order; a section carries the '## Chunk i of N' header only when
\* N > 1; a chunk with no recorded result is rendered as an explicit
\* placeholder and the combination still completes.
C31_CombinationRule ==
  \A p \in Pages :
    /\ SectionsInOrder(combined[p])
    /\ \A i \in 1..Len(combined[p]) :
         combined[p][i].header # <<>> => combined[p][i].of > 1

\* C31 without the rule on the header: as many sections as chunks, in order,
\* and the combination of a document completes whatever results were recorded
C31_SectionsPerChunk ==
  /\ [](\A p \in Pages : SectionsInOrder(combined[p]))
  /\ [][\A p \in Pages :
         (now' # now /\ lastReq'.route = "llm_result" /\ lastReq'.matched
            /\ lastReq'.result # EmptyText
            /\ findPageIdByTaskId(wf, lastReq'.taskId) = p
            /\ wf[p].chunking.currentChunkIndex + 1 >= wf[p].chunking.totalChunks)
         => Len(combined'[p]) = wf[p].chunking.totalChunks]_vars

(* -------------------- claims about deleteFromStorage ------------------- *)
\* deleteFromStorage has just run on a path
Deleted(path) ==
  /\ lastOp'.op = "delete"
  /\ lastOp'.path = path
  /\ now' = now + 1

\* C32: after deleteFromStorage(k), following any sequence of saveToStorage
\* calls on k (single-slot and chunked, in any order and with different chunk
\* counts), loadFromStorage(k) returns not-found and no property STORAGE_k,
\* STORAGE_k_META or STORAGE_k_CHUNK_i remains.
C32_DeleteComplete ==
  [][\A path \in Paths :
       Deleted(path) =>
         /\ loadFromStorage(scriptProperties', path).isNull
         /\ KeysOf(scriptProperties', path) = {}]_vars

\* C32, the load alone: after a delete the path is not found
C32_DeletedNotFound ==
  [][\A path \in Paths :
       Deleted(path) => loadFromStorage(scriptProperties', path).isNull]_vars

(* ----------------- claims about the cleanup before a save -------------- *)
\* the paths that hold an entry, single-slot or chunked, and the timestamps
\* their slots carry
EntryPaths(properties) ==
  {k.path : k \in {e \in DOMAIN properties : e.slot \in {"single", "meta"}}}
EntryTimes(properties, path) ==
  {properties[k].metadata.timestamp :
     k \in {e \in DOMAIN properties : e.path = path /\ e.slot \in {"single", "meta"}}}
\* saveToStorage has just run at time `now` on a store with more entries than
\* maxEntries, or with at most that many
SavedOverCeiling ==
  /\ lastOp'.op = "save" /\ now' = now + 1
  /\ Cardinality(EntryPaths(scriptProperties)) > MaxEntries
SavedUnderCeiling ==
  /\ lastOp'.op = "save" /\ now' = now + 1
  /\ Cardinality(EntryPaths(scriptProperties)) <= MaxEntries

\* C33: the cleanup that runs before a save is triggered exactly when the
\* number of stored entries, chunked entries included, exceeds maxEntries; it
\* then deletes every entry, single-slot or chunked, whose timestamp is older
\* than maxAge, and deletes no entry whose timestamp is within maxAge.
C33_Eviction ==
  [][\A path \in Paths \ {lastOp'.path} :
       /\ SavedUnderCeiling => KeysOf(scriptProperties', path) = KeysOf(scriptProperties, path)
       /\ SavedOverCeiling =>
            /\ (\A t \in EntryTimes(scriptProperties, path) : t < now - MaxAge)
                 => path \notin EntryPaths(scriptProperties')
            /\ (\A t \in EntryTimes(scriptProperties, path) : t >= now - MaxAge)
                 => KeysOf(scriptProperties', path) = KeysOf(scriptProperties, path)]_vars

\* C33 for the entries the cleanup counts, the single-slot ones: triggered by
\* more than maxEntries of them, it deletes the old ones and keeps the others
C33_EvictionOfSingleSlots ==
  [][\A path \in Paths \ {lastOp'.path} :
       (lastOp'.op = "save" /\ now' = now + 1
          /\ hasProperty(scriptProperties, SingleKey(path))) =>
         IF /\ Cardinality(StorageEntryKeys(scriptProperties)) > MaxEntries
            /\ scriptProperties[SingleKey(path)].metadata.timestamp < now - MaxAge
         THEN ~hasProperty(scriptProperties', SingleKey(path))
         ELSE hasProperty(scriptProperties', SingleKey(path))]_vars

(* ------------------ claims about the cuts of chunkContent -------------- *)
\* the piece cut.from..cut.to uses at least 70% of maxChunkSize
UsesSeventyPercent(cut, maxChunkSize) == 10 * (cut.to - cut.from) >= 7 * maxChunkSize
\* the cut of a piece that is not the last one is at a paragraph break, or,
\* no paragraph break up to the full size leaving a piece of 70%, just after
\* a sentence end, or else at the full size
RuledCut(cut, c) ==
  LET fullEnd == cut.from + c.maxChunkSize
      paragraphs == {i \in c.paragraphBreaks : i <= fullEnd /\ i > cut.from}
      sentences == {i \in c.sentenceBreaks : i <= fullEnd /\ i > cut.from}
  IN  \/ cut.to \in paragraphs /\ UsesSeventyPercent(cut, c.maxChunkSize)
      \/ /\ cut.to - 1 \in sentences
         /\ UsesSeventyPercent(cut, c.maxChunkSize)
         /\ \A i \in paragraphs :
              ~PastSeventyPercent(i, cut.from, c.maxChunkSize)
      \/ /\ cut.to = fullEnd
         /\ \A i \in paragraphs \cup sentences :
              ~PastSeventyPercent(i, cut.from, c.maxChunkSize)

C35_BoundedRetry == <>(job.pc = "returned")

\* the number of dispatch attempts of a call never passes MAX_RETRIES, and a
\* call that returned null made MAX_RETRIES of them, all failed
C35_AtMostMaxRetries ==
  /\ Len(job.outcomes) <= MAX_RETRIES
  /\ job.returned = "null" =>
       /\ Len(job.outcomes) = MAX_RETRIES
       /\ \A k \in 1..MAX_RETRIES : job.outcomes[k] \notin {"result", "queued"}

\* a call in the asynchronous mode returns, whatever the dispatch outcomes
C35_AsyncReturns == (job.mode = "async_workflow") => <>(job.pc = "returned")

\* a call whose dispatch is never answered with the queued marker returns
C35_ReturnsUnlessQueued == <>(job.pc \in {"returned", "waiting"})

(* --------------------- claims about chunkMermaidSafe -------------------- *)
\* every piece is at most MAX characters long, every piece but the last ends
\* with a newline and every piece but the first begins with one
SafePieces(parts) ==
  \A k \in 1..Len(parts) :
    /\ Len(parts[k]) <= MAX
    /\ k < Len(parts) => endsWithNewline(parts[k])
    /\ k > 1 => startsWithNewline(parts[k])

\* C36: for every input string, chunkMermaidSafe terminates and returns
\* pieces each of at most 2000 characters (MAX), where every piece except the
\* last ends with a newline and every piece except the first begins with a
\* newline, also for pieces produced by the last-resort re-split of an
\* oversized piece.
C36_CodeBlockSafeChunker == <>(chunker.pc = "done" /\ SafePieces(chunker.parts))

\* a call returned three pieces or more, the second one padded at both ends
C36_Witness ==
  /\ chunker.pc = "done"
  /\ Len(chunker.parts) >= 3
  /\ Len(chunker.parts[2]) = TARGET + 2
  /\ Len(Concat(chunker.parts)) > Len(chunker.s)

\* no piece passes MAX after its padding: the re-split is never taken, a
\* padded piece having at most TARGET + 2 characters
C36_NoResplit ==
  /\ ~chunker.resplit
  /\ chunker.pc = "done" => \A k \in 1..Len(chunker.parts) :
                                Len(chunker.parts[k]) <= TARGET + 2

(* ----------------------- claims about the fan-in gate ------------------- *)
\* createFinalSummaryAndSendWebhook has just been invoked for page p
FinalInvoked(p) == finalRuns'[p] > finalRuns[p]

\* C37: under sequential callback processing, createFinalSummaryAndSendWebhook
\* is invoked for a document only in a state where the main page and every
\* sub-block of its page status control have status 'completed'; it is never
\* invoked while some item is still pending.
C37_FanInGateSafety ==
  [][\A p \in Pages :
       FinalInvoked(p) =>
         /\ control'[p].exists
         /\ AllItemsCompleted(control'[p])
         /\ CompletedCount(control'[p]) = control'[p].tracking.totalItems]_vars

\* the final processing has run for a document with a sub-block, after the
\* callbacks of both its items
C37_Witness ==
  \E p \in Pages :
    /\ finalRuns[p] = 1
    /\ control[p].exists
    /\ control[p].tracking.totalItems = 2
    /\ DOMAIN control[p].tracking.subBlocks # {}
    /\ AllItemsCompleted(control[p])

(* ------------------ claims about the loop of chunkContent -------------- *)
\* an iteration of the loop has just pushed a piece
PiecePushed ==
  /\ chunker.pc = "loop"
  /\ Len(chunker'.chunks) = Len(chunker.chunks) + 1

\* C38: for every string longer than maxChunkSize and every positive
\* maxChunkSize, each iteration of chunkContent's loop advances the offset by
\* at least one character, so the function terminates and returns no empty
\* piece.
C38_ChunkerProgress ==
  [][PiecePushed =>
       /\ chunker'.currentIndex >= chunker.currentIndex + 1
       /\ chunker'.chunks[Len(chunker'.chunks)] # <<>>
       /\ Len(chunker'.chunks) <= Len(chunker.content)]_vars

\* the call on a text longer than maxChunkSize has returned, its first piece
\* cut at a break before the full size
C38_Witness ==
  /\ chunker.pc = "done"
  /\ Len(chunker.content) > chunker.maxChunkSize
  /\ Len(chunker.chunks) >= 2
  /\ Len(chunker.chunks[1]) < chunker.maxChunkSize
  /\ chunker.currentIndex >= Len(chunker.content)

\* every call returns, and returns no empty piece of a text longer than
\* maxChunkSize
C38_Terminates ==
  <>(/\ chunker.pc = "done"
     /\ Len(chunker.content) > chunker.maxChunkSize =>
          \A c \in 1..Len(chunker.chunks) : chunker.chunks[c] # <<>>)

(* ------------------- claims about the document index ------------------- *)
\* the ids of the items of an index: the main page and the sub-blocks
IndexIds(index) == {index.main} \cup Range(index.subBlocks)
\* the number of items a status control tracks
TrackedItems(statusControl) ==
  1 + Cardinality(DOMAIN statusControl.tracking.subBlocks)

\* C39: for every DocumentStructure built by any sequence of addSubBlock
\* calls, index.totalItems equals 1 + index.subBlocks.length and all item ids
\* (main and sub-blocks) are pairwise distinct, so the status control
\* initialised from it has totalItems equal to the number of tracked items
\* and the fan-in gate can be reached by completing each tracked item once.
C39_ManifestSize ==
  /\ job.index.totalItems = 1 + Len(job.index.subBlocks)
  /\ Cardinality(IndexIds(job.index)) = 1 + Len(job.index.subBlocks)
  /\ \A p \in Pages :
       control[p].exists =>
         /\ control[p].tracking.totalItems = TrackedItems(control[p])
         /\ control[p].tracking.completedItems = CompletedCount(control[p])
         /\ AllItemsCompleted(control[p]) = AllCompleted(control[p])

\* the control of a document with MaxBlocks sub-blocks, every item of which
\* was completed once, the last call reporting allCompleted
C39_Witness ==
  \E p \in Pages :
    /\ control[p].exists
    /\ control[p].tracking.totalItems = MaxBlocks + 1
    /\ AllItemsCompleted(control[p])
    /\ trueReturns[p] = 1
    /\ lastCall.allCompleted

====
